---- MODULE Spec2Model ----
(***************************************************************************)
(* A model of purenes: the MOS6502 interpreter (purenes/cpu.py, class CPU) *)
(* and the CPU bus (purenes/cpu.py, class CPUBus), the picture processing  *)
(* unit and its bus (purenes/ppu.py, classes PPU and PPUBus), and the ROM  *)
(* file, the mapper and the cartridge (purenes/rom.py, purenes/mappers,    *)
(* purenes/cartridge.py).                                                  *)
(*                                                                         *)
(* Python integers are unbounded, so no register is truncated unless the   *)
(* code masks it; the status register is a ctypes c_uint8 and is kept      *)
(* modulo 256.  Numbers are decimal; the hexadecimal value the source      *)
(* writes is given in the comment beside each.                             *)
(***************************************************************************)
EXTENDS Integers, Sequences, FiniteSets, TLC

----------------------------------------------------------------------------
(* Python's bit operators on unbounded two's-complement integers.          *)

RECURSIVE BitAnd(_, _)
BitAnd(p, q) ==
    IF p = 0 \/ q = 0 THEN 0
    ELSE IF p = -1 THEN q
    ELSE IF q = -1 THEN p
    ELSE 2 * BitAnd(p \div 2, q \div 2)
         + (IF p % 2 = 1 /\ q % 2 = 1 THEN 1 ELSE 0)

RECURSIVE BitOr(_, _)
BitOr(p, q) ==
    IF p = 0 THEN q
    ELSE IF q = 0 THEN p
    ELSE IF p = -1 \/ q = -1 THEN -1
    ELSE 2 * BitOr(p \div 2, q \div 2)
         + (IF p % 2 = 1 \/ q % 2 = 1 THEN 1 ELSE 0)

RECURSIVE BitXor(_, _)
BitXor(p, q) ==
    IF p = 0 THEN q
    ELSE IF q = 0 THEN p
    ELSE IF p = -1 /\ q = -1 THEN 0
    ELSE 2 * BitXor(p \div 2, q \div 2)
         + (IF p % 2 # q % 2 THEN 1 ELSE 0)

\* v << n and v >> n
Shl(v, n) == v * (2 ^ n)
Shr(v, n) == v \div (2 ^ n)

\* ctypes.c_int8(operand).value
c_int8(v) == IF v % 256 >= 128 THEN (v % 256) - 256 ELSE v % 256

\* Assignment to a ctypes.c_uint8 field
c_uint8(v) == v % 256

\* Python's int(bool)
B2I(p) == IF p THEN 1 ELSE 0

----------------------------------------------------------------------------
(* Program constants.                                                      *)

\* CPUBus._RAM_ADDRESS_MASK = 0x1FF
_RAM_ADDRESS_MASK == 511
\* CPU._RES = 0xFFFC, the reset vector's low byte
_RES == 65532
\* CPU._IRQ = 0xFFFE, the interrupt vector's low byte
_IRQ == 65534
\* Upper end of the range CPUBus.read and CPUBus.write accept: 0x1FFF
RamTop == 8191
\* Base of the stack page: 0x0100
StackBase == 256

\* The registers reset() assigns; none exists on the object before its first assignment
Registers == {"a", "x", "y", "s", "pc"}

\* Bit numbers of the fields of CPUStatus.flags (LittleEndianStructure)
carry == 0
zero == 1
interrupt_disable == 2
decimal == 3
brk == 4
na == 5
overflow == 6
negative == 7

\* status.flags.<field> read and written through the union with status.reg
GetFlag(reg, bit) == (reg \div (2 ^ bit)) % 2
SetFlag(reg, bit, v) ==
    reg - GetFlag(reg, bit) * (2 ^ bit) + (v % 2) * (2 ^ bit)

\* CPU._operations: opcode -> <<addressing mode, operation, cycles>>
_operations ==
    (0 :> <<"imp", "BRK", 7>>) @@ (1 :> <<"izx", "ORA", 6>>) @@ (5 :> <<"zpg", "ORA", 3>>)
    @@ (6 :> <<"zpg", "ASL", 5>>) @@ (8 :> <<"imp", "PHP", 3>>) @@ (9 :> <<"imm", "ORA", 2>>)
    @@ (10 :> <<"acc", "ASL", 2>>) @@ (13 :> <<"abs", "ORA", 4>>) @@ (14 :> <<"abs", "ASL", 6>>)
    @@ (16 :> <<"rel", "BPL", 2>>) @@ (17 :> <<"izy", "ORA", 5>>) @@ (21 :> <<"zpx", "ORA", 4>>)
    @@ (22 :> <<"zpx", "ASL", 6>>) @@ (24 :> <<"imp", "CLC", 2>>) @@ (25 :> <<"aby", "ORA", 4>>)
    @@ (29 :> <<"abx", "ORA", 4>>) @@ (30 :> <<"abx", "ASL", 7>>) @@ (32 :> <<"abs", "JSR", 6>>)
    @@ (33 :> <<"izx", "AND", 6>>) @@ (36 :> <<"zpg", "BIT", 3>>) @@ (37 :> <<"zpg", "AND", 3>>)
    @@ (38 :> <<"zpg", "ROL", 5>>) @@ (40 :> <<"imp", "PLP", 4>>) @@ (41 :> <<"imm", "AND", 2>>)
    @@ (42 :> <<"acc", "ROL", 2>>) @@ (44 :> <<"abs", "BIT", 4>>) @@ (45 :> <<"abs", "AND", 4>>)
    @@ (46 :> <<"abs", "ROL", 6>>) @@ (48 :> <<"rel", "BMI", 2>>) @@ (49 :> <<"izy", "AND", 5>>)
    @@ (53 :> <<"zpx", "AND", 4>>) @@ (54 :> <<"zpx", "ROL", 6>>) @@ (56 :> <<"imp", "SEC", 2>>)
    @@ (57 :> <<"aby", "AND", 4>>) @@ (61 :> <<"abx", "AND", 4>>) @@ (62 :> <<"abx", "ROL", 7>>)
    @@ (72 :> <<"imp", "PHA", 3>>) @@ (80 :> <<"rel", "BVC", 2>>) @@ (88 :> <<"imp", "CLI", 2>>)
    @@ (97 :> <<"izx", "ADC", 6>>) @@ (101 :> <<"zpg", "ADC", 3>>) @@ (104 :> <<"imp", "PLA", 4>>)
    @@ (105 :> <<"imm", "ADC", 2>>) @@ (108 :> <<"ind", "JMP", 5>>) @@ (109 :> <<"abs", "ADC", 4>>)
    @@ (112 :> <<"rel", "BVS", 2>>) @@ (113 :> <<"izy", "ADC", 5>>) @@ (117 :> <<"zpx", "ADC", 4>>)
    @@ (120 :> <<"imp", "SEI", 2>>) @@ (121 :> <<"aby", "ADC", 4>>) @@ (125 :> <<"abx", "ADC", 4>>)
    @@ (129 :> <<"izx", "STA", 6>>) @@ (132 :> <<"zpg", "STY", 3>>) @@ (133 :> <<"zpg", "STA", 3>>)
    @@ (136 :> <<"imp", "DEY", 2>>) @@ (138 :> <<"imp", "TXA", 2>>) @@ (140 :> <<"abs", "STY", 4>>)
    @@ (141 :> <<"abs", "STA", 4>>) @@ (144 :> <<"rel", "BCC", 2>>) @@ (145 :> <<"izy", "STA", 6>>)
    @@ (148 :> <<"zpx", "STY", 4>>) @@ (149 :> <<"zpx", "STA", 4>>) @@ (150 :> <<"zpy", "STX", 4>>)
    @@ (152 :> <<"imp", "TYA", 2>>) @@ (153 :> <<"aby", "STA", 5>>) @@ (154 :> <<"imp", "TXS", 2>>)
    @@ (157 :> <<"abx", "STA", 5>>) @@ (160 :> <<"imm", "LDY", 2>>) @@ (161 :> <<"izx", "LDA", 6>>)
    @@ (162 :> <<"imm", "LDX", 2>>) @@ (164 :> <<"zpg", "LDY", 3>>) @@ (165 :> <<"zpg", "LDA", 3>>)
    @@ (166 :> <<"zpg", "LDX", 3>>) @@ (168 :> <<"imp", "TAY", 2>>) @@ (169 :> <<"imm", "LDA", 2>>)
    @@ (170 :> <<"imp", "TAX", 2>>) @@ (172 :> <<"abs", "LDY", 4>>) @@ (173 :> <<"abs", "LDA", 4>>)
    @@ (174 :> <<"abs", "LDX", 4>>) @@ (176 :> <<"rel", "BCS", 2>>) @@ (177 :> <<"izy", "LDA", 5>>)
    @@ (180 :> <<"zpx", "LDY", 4>>) @@ (181 :> <<"zpx", "LDA", 4>>) @@ (182 :> <<"zpy", "LDX", 4>>)
    @@ (184 :> <<"imp", "CLV", 2>>) @@ (185 :> <<"aby", "LDA", 4>>) @@ (186 :> <<"imp", "TSX", 2>>)
    @@ (188 :> <<"abx", "LDY", 4>>) @@ (189 :> <<"abx", "LDA", 4>>) @@ (190 :> <<"aby", "LDX", 4>>)
    @@ (198 :> <<"zpg", "DEC", 5>>) @@ (200 :> <<"imp", "INY", 2>>) @@ (202 :> <<"imp", "DEX", 2>>)
    @@ (206 :> <<"abs", "DEC", 6>>) @@ (208 :> <<"rel", "BNE", 2>>) @@ (214 :> <<"zpx", "DEC", 6>>)
    @@ (216 :> <<"imp", "CLD", 2>>) @@ (222 :> <<"abx", "DEC", 7>>) @@ (225 :> <<"izx", "SBC", 6>>)
    @@ (229 :> <<"zpg", "SBC", 3>>) @@ (230 :> <<"zpg", "INC", 5>>) @@ (232 :> <<"imp", "INX", 2>>)
    @@ (233 :> <<"imm", "SBC", 2>>) @@ (237 :> <<"abs", "SBC", 4>>) @@ (238 :> <<"abs", "INC", 6>>)
    @@ (240 :> <<"rel", "BEQ", 2>>) @@ (241 :> <<"izy", "SBC", 5>>) @@ (245 :> <<"zpx", "SBC", 4>>)
    @@ (246 :> <<"zpx", "INC", 6>>) @@ (248 :> <<"imp", "SED", 2>>) @@ (249 :> <<"aby", "SBC", 4>>)
    @@ (253 :> <<"abx", "SBC", 4>>) @@ (254 :> <<"abx", "INC", 7>>)

Opcodes == DOMAIN _operations
OpMode(op) == _operations[op][1]
OpName(op) == _operations[op][2]
OpCycles(op) == _operations[op][3]

----------------------------------------------------------------------------
(* State.                                                                  *)

VARIABLES
    a, x, y, s, pc,        \* CPU registers (0 while not yet assigned)
    defined,               \* the registers that have been assigned
    status,                \* CPU.status.reg
    opcode,                \* CPU.opcode
    operation_value,       \* CPU.operation_value
    effective_address,     \* CPU.effective_address
    remaining_cycles,      \* CPU.remaining_cycles
    addressing_mode,       \* CPU._addressing_mode, by name
    busKind,               \* the bus the CPU was constructed with:
                           \*   "CPUBus" (class CPUBus) or "Mock" (the test double)
    ram,                   \* CPUBus._ram, the cells that are not 0x00
    image, fill,           \* the Mock's scripted read values: by address, and elsewhere
    entry,                 \* the address the harness starts the program at
    calls,                 \* the bus accesses of the last call, in order
    fault,                 \* how the last call ended: "none" or the exception
    last,                  \* the last call: "new", "set", "reset", "clock", "write", "read"
    pre,                   \* the CPU registers before the last reset() or fetching clock()
    ticks,                 \* clock() calls since the last opcode fetch, that call
                           \*   included; 0 when that call raised
    fetches,               \* opcode fetches so far
    resets,                \* reset() calls so far
    sinceReset,            \* clock() calls since the last reset() that returned;
                           \*   -1 when there was none
    writes,                \* host calls of CPUBus.write so far
    busWrite,              \* the last CPUBus.write, by anyone: <<address, data>> or <<>>
    hostRead,              \* what the last call returned when it was a host
                           \*   CPUBus.read: <<address, ok, data>>; else <<>>
    ppu,                   \* the attributes of the PPU object
    ppu_bus,               \* the bus the PPU was constructed with, and its memory
    ret,                   \* what the last PPU.read returned; "None" otherwise
    before,                \* ppu before the last call on the PPU
    arg,                   \* the arguments of that call: <<>>, <<address>> or
                           \*   <<address, data>>
    prev,                  \* the call on the PPU before the last: what last, arg,
                           \*   before, calls, ret and fault were after it
    start,                 \* ppu before the last clock() that was called at cycle 0
    clocks,                \* the clock() calls since then, that call included, when
                           \*   all of them returned and nothing else was called on
                           \*   the PPU; else -1
    origin,                \* ppu after the last reset() or register access
    run,                   \* the clock() calls since then when all of them
                           \*   returned; else -1
    ops,                   \* register accesses and reset() calls on the PPU so far
    rom_data,              \* the bytes of the .nes file the host has
    rom,                   \* the Rom the host has made of them; None otherwise
    cartridge,             \* the Cartridge the host has loaded; None otherwise
    message,               \* what the exception of the last call carries; <<>>
                           \*   when the call returned
    twin                   \* the second PPU and the second CPU of a host that
                           \*   constructs two of each; None otherwise

\* What belongs to the CPU and its bus, what to the PPU and its bus, and what
\* to the cartridge; calls, fault and last describe the last call on any
cpuVars == <<a, x, y, s, pc, defined, status, opcode, operation_value,
             effective_address, remaining_cycles, addressing_mode, busKind, ram,
             image, fill, entry, pre, ticks, fetches, resets, sinceReset,
             writes, busWrite, hostRead>>

ppuVars == <<ppu, ppu_bus, ret, before, arg, prev, start, clocks, origin, run,
            ops>>

cartVars == <<rom_data, rom, cartridge, message>>

vars == <<cpuVars, ppuVars, cartVars, twin, calls, fault, last>>

----------------------------------------------------------------------------
(* The buses.                                                              *)

\* self._ram[i], for a list that starts as [0x00] * 0x0800
RamGet(r, i) == IF i \in DOMAIN r THEN r[i] ELSE 0

\* self._ram[i] = data
RamSet(r, i, data) ==
    IF data = 0
    THEN [k \in DOMAIN r \ {i} |-> r[k]]
    ELSE [k \in DOMAIN r \cup {i} |-> IF k = i THEN data ELSE r[k]]

\* The guard of CPUBus.read and CPUBus.write: 0x0000 <= address <= 0x1FFF
InRamRange(address) == 0 <= address /\ address <= RamTop

\* The index into CPUBus._ram: address & self._RAM_ADDRESS_MASK
RamIndex(address) == BitAnd(address, _RAM_ADDRESS_MASK)

\* A faulty variant of CPUBus.read: the address is folded with 0x07FF while
\* CPUBus.write folds it with _RAM_ADDRESS_MASK
CPUBus_read_other_mask(r, address) ==
    IF InRamRange(address)
    THEN [ok |-> TRUE, data |-> RamGet(r, BitAnd(address, 2047))]
    ELSE [ok |-> FALSE, data |-> 0]

\* CPUBus.read: the byte, or the invalid-address exception
CPUBus_read(r, address) ==
    IF InRamRange(address)
    THEN [ok |-> TRUE, data |-> RamGet(r, RamIndex(address))]
    ELSE [ok |-> FALSE, data |-> 0]

\* CPUBus.write: the new RAM, or the invalid-address exception
CPUBus_write(r, address, data) ==
    IF InRamRange(address)
    THEN [ok |-> TRUE, ram |-> RamSet(r, RamIndex(address), data)]
    ELSE [ok |-> FALSE, ram |-> r]

\* mock_cpu_bus.read: the scripted value; a Mock accepts every address
Mock_read(address) ==
    IF address \in DOMAIN image THEN image[address] ELSE fill

----------------------------------------------------------------------------
(* The CPU's methods, as functions of a record st: the CPU's attributes,   *)
(* the RAM behind the bus, the accesses made so far (calls), the exception *)
(* raised (fault), and the method's local variables: the value the last    *)
(* read returned (val), and operand and lo where a method keeps them.      *)
(* A method is the sequence of its statements; once an exception is raised *)
(* nothing after it runs.                                                  *)

Pack ==
    [a |-> a, x |-> x, y |-> y, s |-> s, pc |-> pc, defined |-> defined,
     status |-> status,
     opcode |-> opcode, operation_value |-> operation_value,
     effective_address |-> effective_address,
     remaining_cycles |-> remaining_cycles,
     addressing_mode |-> addressing_mode,
     ram |-> ram, busWrite |-> busWrite, calls |-> <<>>, fault |-> "none",
     val |-> 0, operand |-> 0, lo |-> 0]

\* One statement F after the statements that gave st
Bind(st, F(_)) == IF st.fault # "none" THEN st ELSE F(st)

\* Statements in sequence
Do2(st, F1(_), F2(_)) == Bind(Bind(st, F1), F2)
Do3(st, F1(_), F2(_), F3(_)) == Bind(Do2(st, F1, F2), F3)
Do4(st, F1(_), F2(_), F3(_), F4(_)) == Bind(Do3(st, F1, F2, F3), F4)
Do5(st, F1(_), F2(_), F3(_), F4(_), F5(_)) ==
    Bind(Do4(st, F1, F2, F3, F4), F5)
Do6(st, F1(_), F2(_), F3(_), F4(_), F5(_), F6(_)) ==
    Bind(Do5(st, F1, F2, F3, F4, F5), F6)

\* CPU._read
_read(st, address) ==
    IF st.fault # "none" THEN st
    ELSE IF busKind = "Mock"
    THEN [st EXCEPT !.val = Mock_read(address),
                    !.calls = Append(@, <<"read", address, Mock_read(address)>>)]
    ELSE IF CPUBus_read(st.ram, address).ok
    THEN [st EXCEPT !.val = CPUBus_read(st.ram, address).data,
                    !.calls = Append(@, <<"read", address,
                                          CPUBus_read(st.ram, address).data>>)]
    ELSE [st EXCEPT !.fault = "InvalidAddress",
                    !.calls = Append(@, <<"read", address, 0>>)]

\* CPU._write
_write(st, address, data) ==
    IF st.fault # "none" THEN st
    ELSE IF busKind = "Mock"
    THEN [st EXCEPT !.calls = Append(@, <<"write", address, data>>)]
    ELSE IF CPUBus_write(st.ram, address, data).ok
    THEN [st EXCEPT !.ram = CPUBus_write(st.ram, address, data).ram,
                    !.busWrite = <<address, data>>,
                    !.calls = Append(@, <<"write", address, data>>)]
    ELSE [st EXCEPT !.fault = "InvalidAddress",
                    !.calls = Append(@, <<"write", address, data>>)]

\* CPU._load_operation; an opcode that is no key of _operations is a KeyError
_load_operation(st) ==
    IF st.opcode \notin Opcodes THEN [st EXCEPT !.fault = "KeyError"]
    ELSE [st EXCEPT !.addressing_mode = OpMode(st.opcode),
                    !.remaining_cycles = @ + OpCycles(st.opcode)]

\* CPU._push_to_stack
_push_to_stack(st, data) ==
    Bind(_write(st, BitOr(StackBase, st.s), data),
         LAMBDA t : [t EXCEPT !.s = @ - 1])

\* CPU._pull_from_stack; the value pulled is left in val
_pull_from_stack(st) ==
    Bind(_read(st, BitOr(StackBase, st.s)),
         LAMBDA t : [t EXCEPT !.s = @ + 1])

\* address & 0xFF00
Page(address) == BitAnd(address, 65280)

\* A faulty variant of _execute_branch_operation: the page of the
\* destination is compared with itself, so no page cross is ever seen
_execute_branch_same_page(st) ==
    [st EXCEPT
        !.remaining_cycles =
            @ + 1 + B2I(Page(st.pc + st.operation_value)
                        # Page(st.pc + st.operation_value)),
        !.effective_address = st.pc + st.operation_value,
        !.pc = st.pc + st.operation_value]

\* CPU._execute_branch_operation
_execute_branch_operation(st) ==
    [st EXCEPT
        !.remaining_cycles =
            @ + 1 + B2I(Page(st.pc + st.operation_value) # Page(st.pc)),
        !.effective_address = st.pc + st.operation_value,
        !.pc = st.pc + st.operation_value]

\* CPU._read_absolute_address
_read_absolute_address(st) ==
    Do4(st,
        LAMBDA t : _read(t, t.pc),
        LAMBDA t : [t EXCEPT !.lo = t.val, !.pc = @ + 1],
        LAMBDA t : _read(t, t.pc),
        LAMBDA t : [t EXCEPT !.pc = @ + 1,
                             !.effective_address = BitOr(Shl(t.val, 8), t.lo)])

\* A faulty variant of _increment_address_with_carry: the extra cycle of a
\* page cross is forgotten
_increment_address_no_penalty(st, address, increment) ==
    [st EXCEPT !.effective_address = address + increment]

\* CPU._increment_address_with_carry
_increment_address_with_carry(st, address, increment) ==
    [st EXCEPT
        !.effective_address = address + increment,
        !.remaining_cycles =
            @ + B2I(Page(address + increment) # Page(address))]

\* CPU._set_negative_flag
_set_negative_flag(reg, value) ==
    SetFlag(reg, negative, B2I(BitAnd(value, 128) # 0))          \* 0x80

\* CPU._set_zero_flag
_set_zero_flag(reg, value) == SetFlag(reg, zero, B2I(value = 0))

\* CPU._set_carry_flag
_set_carry_flag(reg, value) ==
    SetFlag(reg, carry, B2I(BitAnd(value, 128) # 0))             \* 0x80

\* A faulty variant of _set_overflow_flag: the signs of the two inputs are
\* not compared
_set_overflow_flag_result_only(reg, p, q, result) ==
    SetFlag(reg, overflow, B2I(BitAnd(BitXor(p, result), 128) # 0))

\* CPU._set_overflow_flag
_set_overflow_flag(reg, p, q, result) ==
    LET input_signs_are_the_same == BitAnd(BitXor(p, q), 128) = 0
        input_and_result_signs_differ == BitAnd(BitXor(p, result), 128) # 0
    IN  SetFlag(reg, overflow,
                B2I(input_signs_are_the_same /\ input_and_result_signs_differ))

\* _set_negative_flag(value) followed by _set_zero_flag(value)
SetNZ(reg, value) == _set_zero_flag(_set_negative_flag(reg, value), value)

\* CPU._execute_increment_operation; the value returned is left in val
_execute_increment_operation(st, value) ==
    [st EXCEPT !.status = SetNZ(@, BitAnd(value + 1, 255)),      \* 0xFF
               !.val = BitAnd(value + 1, 255)]

\* CPU._execute_decrement_operation; the value returned is left in val
_execute_decrement_operation(st, value) ==
    [st EXCEPT !.status = SetNZ(@, BitAnd(value - 1, 255)),      \* 0xFF
               !.val = BitAnd(value - 1, 255)]

\* CPU._write_operation_result
_write_operation_result(st, value) ==
    IF st.addressing_mode = "acc"
    THEN [st EXCEPT !.a = value]
    ELSE _write(st, st.effective_address, value)

----------------------------------------------------------------------------
(* Addressing modes.                                                       *)

\* self.operation_value = self._read(self.effective_address)
ReadOperationValue(st) ==
    Bind(_read(st, st.effective_address),
         LAMBDA t : [t EXCEPT !.operation_value = t.val])

_acc(st) == [st EXCEPT !.operation_value = st.a]

_abs(st) ==
    Do2(st,
        LAMBDA t : _read_absolute_address(t),
        LAMBDA t : ReadOperationValue(t))

_abx(st) ==
    Do3(st,
        LAMBDA t : _read_absolute_address(t),
        LAMBDA t : _increment_address_with_carry(t, t.effective_address, t.x),
        LAMBDA t : ReadOperationValue(t))

_aby(st) ==
    Do3(st,
        LAMBDA t : _read_absolute_address(t),
        LAMBDA t : _increment_address_with_carry(t, t.effective_address, t.y),
        LAMBDA t : ReadOperationValue(t))

_imm(st) ==
    Do2(st,
        LAMBDA t : _read(t, t.pc),
        LAMBDA t : [t EXCEPT !.operation_value = t.val, !.pc = @ + 1])

_imp(st) == st

_ind(st) ==
    Do5(st,
        LAMBDA t : _read_absolute_address(t),
        LAMBDA t : _read(t, t.effective_address),
        LAMBDA t : [t EXCEPT !.lo = t.val],
        LAMBDA t : IF Page(t.effective_address + 1) # Page(t.effective_address)
                   THEN _read(t, Page(t.effective_address))
                   ELSE _read(t, t.effective_address + 1),
        LAMBDA t : [t EXCEPT !.effective_address = BitOr(Shl(t.val, 8), t.lo)])

_izx(st) ==
    Do6(st,
        LAMBDA t : _read(t, t.pc),
        LAMBDA t : [t EXCEPT !.operand = t.val, !.pc = @ + 1],
        LAMBDA t : _read(t, BitAnd(t.operand + t.x, 255)),        \* 0x00FF
        LAMBDA t : _read([t EXCEPT !.lo = t.val],
                         BitAnd(t.operand + t.x + 1, 255)),
        LAMBDA t : [t EXCEPT !.effective_address = BitOr(Shl(t.val, 8), t.lo)],
        LAMBDA t : ReadOperationValue(t))

_izy(st) ==
    Do6(st,
        LAMBDA t : _read(t, t.pc),
        LAMBDA t : [t EXCEPT !.operand = t.val, !.pc = @ + 1],
        LAMBDA t : _read(t, BitAnd(t.operand, 255)),              \* 0x00FF
        LAMBDA t : _read([t EXCEPT !.lo = t.val],
                         BitAnd(t.operand + 1, 255)),
        LAMBDA t : _increment_address_with_carry(
                       t, BitOr(Shl(t.val, 8), t.lo), t.y),
        LAMBDA t : ReadOperationValue(t))

_rel(st) ==
    Do2(st,
        LAMBDA t : _read(t, t.pc),
        LAMBDA t : [t EXCEPT !.pc = @ + 1,
                             !.operation_value = c_int8(t.val)])

_zpg(st) ==
    Do4(st,
        LAMBDA t : _read(t, t.pc),
        LAMBDA t : [t EXCEPT !.effective_address = t.val],
        LAMBDA t : _read(t, t.effective_address),
        LAMBDA t : [t EXCEPT !.operation_value = t.val, !.pc = @ + 1])

_zpx(st) ==
    Do3(st,
        LAMBDA t : _read(t, t.pc),
        LAMBDA t : [t EXCEPT !.pc = @ + 1,
                             !.effective_address = BitAnd(t.val + t.x, 255)],
        LAMBDA t : ReadOperationValue(t))

_zpy(st) ==
    Do3(st,
        LAMBDA t : _read(t, t.pc),
        LAMBDA t : [t EXCEPT !.pc = @ + 1,
                             !.effective_address = BitAnd(t.val + t.y, 255)],
        LAMBDA t : ReadOperationValue(t))

\* CPU._retrieve_operation_value: self._addressing_mode()
_retrieve_operation_value(st) ==
    CASE st.addressing_mode = "acc" -> _acc(st)
      [] st.addressing_mode = "abs" -> _abs(st)
      [] st.addressing_mode = "abx" -> _abx(st)
      [] st.addressing_mode = "aby" -> _aby(st)
      [] st.addressing_mode = "imm" -> _imm(st)
      [] st.addressing_mode = "imp" -> _imp(st)
      [] st.addressing_mode = "ind" -> _ind(st)
      [] st.addressing_mode = "izx" -> _izx(st)
      [] st.addressing_mode = "izy" -> _izy(st)
      [] st.addressing_mode = "rel" -> _rel(st)
      [] st.addressing_mode = "zpg" -> _zpg(st)
      [] st.addressing_mode = "zpx" -> _zpx(st)
      [] st.addressing_mode = "zpy" -> _zpy(st)

----------------------------------------------------------------------------
(* Operations.                                                             *)

\* Transfer instructions
_LDA(st) == [st EXCEPT !.a = st.operation_value,
                       !.status = SetNZ(@, st.operation_value)]
_LDX(st) == [st EXCEPT !.x = st.operation_value,
                       !.status = SetNZ(@, st.operation_value)]
_LDY(st) == [st EXCEPT !.y = st.operation_value,
                       !.status = SetNZ(@, st.operation_value)]
_STA(st) == _write_operation_result(st, st.a)
_STX(st) == _write(st, st.effective_address, st.x)
_STY(st) == _write_operation_result(st, st.y)
_TAX(st) == [st EXCEPT !.x = st.a, !.status = SetNZ(@, st.a)]
_TAY(st) == [st EXCEPT !.y = st.a, !.status = SetNZ(@, st.a)]
_TSX(st) == [st EXCEPT !.x = st.s, !.status = SetNZ(@, st.s)]
_TXA(st) == [st EXCEPT !.a = st.x, !.status = SetNZ(@, st.x)]
_TXS(st) == [st EXCEPT !.s = st.x]
_TYA(st) == [st EXCEPT !.a = st.y, !.status = SetNZ(@, st.y)]

\* Stack instructions
_PHA(st) == _push_to_stack(st, st.a)

_PHP(st) ==
    Do3(st,
        LAMBDA t : [t EXCEPT !.status = SetFlag(@, brk, 1)],
        LAMBDA t : _push_to_stack(t, t.status),
        LAMBDA t : [t EXCEPT !.status = SetFlag(@, brk, 0)])

_PLA(st) ==
    Do2(st,
        LAMBDA t : _pull_from_stack(t),
        LAMBDA t : [t EXCEPT !.a = t.val, !.status = SetNZ(@, t.val)])

_PLP(st) ==
    Do2(st,
        LAMBDA t : _pull_from_stack(t),
        LAMBDA t : [t EXCEPT !.status = c_uint8(t.val)])

\* Decrements and increments
_DEC(st) ==
    Do3(st,
        LAMBDA t : _execute_decrement_operation(t, t.operation_value),
        LAMBDA t : [t EXCEPT !.operation_value = t.val],
        LAMBDA t : _write_operation_result(t, t.operation_value))

_DEX(st) ==
    Do2(st,
        LAMBDA t : _execute_decrement_operation(t, t.x),
        LAMBDA t : [t EXCEPT !.x = t.val])

_DEY(st) ==
    Do2(st,
        LAMBDA t : _execute_decrement_operation(t, t.y),
        LAMBDA t : [t EXCEPT !.y = t.val])

_INC(st) ==
    Do3(st,
        LAMBDA t : _execute_increment_operation(t, t.operation_value),
        LAMBDA t : [t EXCEPT !.operation_value = t.val],
        LAMBDA t : _write_operation_result(t, t.operation_value))

_INX(st) ==
    Do2(st,
        LAMBDA t : _execute_increment_operation(t, t.x),
        LAMBDA t : [t EXCEPT !.x = t.val])

_INY(st) ==
    Do2(st,
        LAMBDA t : _execute_increment_operation(t, t.y),
        LAMBDA t : [t EXCEPT !.y = t.val])

\* Arithmetic operations
_ADC(st) ==
    Do3(st,
        \* result: int = self.a + self.operation_value + carry, kept in val
        LAMBDA t : [t EXCEPT !.val = t.a + t.operation_value
                                     + GetFlag(t.status, carry)],
        LAMBDA t : [t EXCEPT !.status =
                        _set_overflow_flag(
                            SetFlag(@, carry, B2I(t.val > 255)), \* 0xFF
                            t.a, t.operation_value, t.val)],
        LAMBDA t : [t EXCEPT !.a = BitAnd(t.val, 255),
                             !.status = SetNZ(@, BitAnd(t.val, 255))])

_SBC(st) ==
    _ADC([st EXCEPT !.operation_value = BitXor(st.operation_value, 255)])

\* Logical operations
_AND(st) ==
    [st EXCEPT !.a = BitAnd(st.a, st.operation_value),
               !.status = SetNZ(@, BitAnd(st.a, st.operation_value))]

_ORA(st) ==
    [st EXCEPT !.a = BitOr(st.a, st.operation_value),
               !.status = SetNZ(@, BitOr(st.a, st.operation_value))]

\* Shift and rotate instructions
_ASL(st) ==
    Do3(st,
        LAMBDA t : [t EXCEPT
                       !.status = _set_carry_flag(@, t.operation_value),
                       !.operation_value =
                           BitAnd(Shl(t.operation_value, 1), 255)],
        LAMBDA t : _write_operation_result(t, t.operation_value),
        LAMBDA t : [t EXCEPT !.status = SetNZ(@, t.operation_value)])

_ROL(st) ==
    Do3(st,
        LAMBDA t : [t EXCEPT
                       !.status = _set_carry_flag(@, t.operation_value),
                       !.operation_value =
                           BitAnd(BitOr(Shl(t.operation_value, 1),
                                        GetFlag(t.status, carry)), 255)],
        LAMBDA t : _write_operation_result(t, t.operation_value),
        LAMBDA t : [t EXCEPT !.status = SetNZ(@, t.operation_value)])

\* Flag instructions
_CLC(st) == [st EXCEPT !.status = SetFlag(@, carry, 0)]
_CLD(st) == [st EXCEPT !.status = SetFlag(@, decimal, 0)]
_CLI(st) == [st EXCEPT !.status = SetFlag(@, interrupt_disable, 0)]
_CLV(st) == [st EXCEPT !.status = SetFlag(@, overflow, 0)]
_SEC(st) == [st EXCEPT !.status = SetFlag(@, carry, 1)]
_SED(st) == [st EXCEPT !.status = SetFlag(@, decimal, 1)]
_SEI(st) == [st EXCEPT !.status = SetFlag(@, interrupt_disable, 1)]

\* Conditional branch instructions
_BCC(st) == IF GetFlag(st.status, carry) = 0
            THEN _execute_branch_operation(st) ELSE st
_BCS(st) == IF GetFlag(st.status, carry) = 1
            THEN _execute_branch_operation(st) ELSE st
_BNE(st) == IF GetFlag(st.status, zero) = 0
            THEN _execute_branch_operation(st) ELSE st
_BEQ(st) == IF GetFlag(st.status, zero) = 1
            THEN _execute_branch_operation(st) ELSE st
_BPL(st) == IF GetFlag(st.status, negative) = 0
            THEN _execute_branch_operation(st) ELSE st
_BMI(st) == IF GetFlag(st.status, negative) = 1
            THEN _execute_branch_operation(st) ELSE st
_BVC(st) == IF GetFlag(st.status, overflow) = 0
            THEN _execute_branch_operation(st) ELSE st
_BVS(st) == IF GetFlag(st.status, overflow) = 1
            THEN _execute_branch_operation(st) ELSE st

\* Jumps and subroutines
_JMP(st) == [st EXCEPT !.pc = st.effective_address]

_JSR(st) ==
    Do4(st,
        LAMBDA t : [t EXCEPT !.pc = @ - 1],
        LAMBDA t : _push_to_stack(t, Shr(t.pc, 8)),
        LAMBDA t : _push_to_stack(t, BitAnd(t.pc, 255)),          \* 0x00FF
        LAMBDA t : [t EXCEPT !.pc = t.effective_address])

\* A faulty variant of _BRK: the return address is pushed low byte first
_BRK_low_byte_first(st) ==
    Bind(Do6(st,
             LAMBDA t : [t EXCEPT
                            !.pc = @ + 1,
                            !.status = SetFlag(SetFlag(@, interrupt_disable, 1),
                                               brk, 1)],
             LAMBDA t : _push_to_stack(t, BitAnd(t.pc, 255)),
             LAMBDA t : _push_to_stack(t, Shr(t.pc, 8)),
             LAMBDA t : _push_to_stack(t, t.status),
             LAMBDA t : _read(t, _IRQ),
             LAMBDA t : _read([t EXCEPT !.lo = t.val], _IRQ + 1)),
         LAMBDA t : [t EXCEPT !.pc = BitOr(t.lo, Shl(t.val, 8))])

\* Interrupts
_BRK(st) ==
    Bind(Do6(st,
             LAMBDA t : [t EXCEPT
                            !.pc = @ + 1,
                            !.status = SetFlag(SetFlag(@, interrupt_disable, 1),
                                               brk, 1)],
             LAMBDA t : _push_to_stack(t, Shr(t.pc, 8)),
             LAMBDA t : _push_to_stack(t, BitAnd(t.pc, 255)),     \* 0x00FF
             LAMBDA t : _push_to_stack(t, t.status),
             LAMBDA t : _read(t, _IRQ),
             LAMBDA t : _read([t EXCEPT !.lo = t.val], _IRQ + 1)),
         LAMBDA t : [t EXCEPT !.pc = BitOr(t.lo, Shl(t.val, 8))])

\* Other
_BIT(st) ==
    [st EXCEPT !.status =
        SetFlag(SetFlag(SetFlag(@, negative, Shr(st.operation_value, 7)),
                        overflow, BitAnd(Shr(st.operation_value, 6), 1)),
                zero, B2I(BitAnd(st.operation_value, st.a) = 0))]

\* CPU._execute_operation: self._operation()
_execute_operation(st) ==
    LET op == OpName(st.opcode) IN
    CASE op = "ADC" -> _ADC(st)
      [] op = "AND" -> _AND(st)
      [] op = "ASL" -> _ASL(st)
      [] op = "BCC" -> _BCC(st)
      [] op = "BCS" -> _BCS(st)
      [] op = "BEQ" -> _BEQ(st)
      [] op = "BIT" -> _BIT(st)
      [] op = "BMI" -> _BMI(st)
      [] op = "BNE" -> _BNE(st)
      [] op = "BPL" -> _BPL(st)
      [] op = "BRK" -> _BRK(st)
      [] op = "BVC" -> _BVC(st)
      [] op = "BVS" -> _BVS(st)
      [] op = "CLC" -> _CLC(st)
      [] op = "CLD" -> _CLD(st)
      [] op = "CLI" -> _CLI(st)
      [] op = "CLV" -> _CLV(st)
      [] op = "DEC" -> _DEC(st)
      [] op = "DEX" -> _DEX(st)
      [] op = "DEY" -> _DEY(st)
      [] op = "INC" -> _INC(st)
      [] op = "INX" -> _INX(st)
      [] op = "INY" -> _INY(st)
      [] op = "JMP" -> _JMP(st)
      [] op = "JSR" -> _JSR(st)
      [] op = "LDA" -> _LDA(st)
      [] op = "LDX" -> _LDX(st)
      [] op = "LDY" -> _LDY(st)
      [] op = "ORA" -> _ORA(st)
      [] op = "PHA" -> _PHA(st)
      [] op = "PHP" -> _PHP(st)
      [] op = "PLA" -> _PLA(st)
      [] op = "PLP" -> _PLP(st)
      [] op = "ROL" -> _ROL(st)
      [] op = "SBC" -> _SBC(st)
      [] op = "SEC" -> _SEC(st)
      [] op = "SED" -> _SED(st)
      [] op = "SEI" -> _SEI(st)
      [] op = "STA" -> _STA(st)
      [] op = "STX" -> _STX(st)
      [] op = "STY" -> _STY(st)
      [] op = "TAX" -> _TAX(st)
      [] op = "TAY" -> _TAY(st)
      [] op = "TSX" -> _TSX(st)
      [] op = "TXA" -> _TXA(st)
      [] op = "TXS" -> _TXS(st)
      [] op = "TYA" -> _TYA(st)

\* CPU.clock
clock(st) ==
    IF st.remaining_cycles = 0
    THEN IF "pc" \notin st.defined
         THEN [st EXCEPT !.fault = "AttributeError"]
         ELSE Do6(st,
                  LAMBDA t : _read(t, t.pc),
                  LAMBDA t : [t EXCEPT !.opcode = t.val, !.pc = @ + 1],
                  LAMBDA t : _load_operation(t),
                  LAMBDA t : _retrieve_operation_value(t),
                  LAMBDA t : _execute_operation(t),
                  LAMBDA t : [t EXCEPT !.remaining_cycles = @ - 1])
    ELSE [st EXCEPT !.remaining_cycles = @ - 1]

\* A faulty variant of reset: the start sequence of 7 cycles is forgotten
reset_no_start_sequence(st) ==
    Do4(st,
        LAMBDA t : [t EXCEPT !.a = 0, !.x = 0, !.y = 0, !.s = 253,
                             !.defined = @ \cup {"a", "x", "y", "s"},
                             !.status = c_uint8(BitOr(@, 4))],
        LAMBDA t : _read(t, _RES),
        LAMBDA t : _read([t EXCEPT !.lo = t.val], _RES + 1),
        LAMBDA t : [t EXCEPT !.pc = BitOr(Shl(t.val, 8), t.lo),
                             !.defined = @ \cup {"pc"}])

\* CPU.reset
reset(st) ==
    Do4(st,
        LAMBDA t : [t EXCEPT !.a = 0, !.x = 0, !.y = 0,
                             !.s = 253,                          \* 0xFD
                             !.defined = @ \cup {"a", "x", "y", "s"},
                             !.status = c_uint8(BitOr(@, 4))],   \* |= 0x04
        LAMBDA t : _read(t, _RES),
        LAMBDA t : _read([t EXCEPT !.lo = t.val], _RES + 1),
        LAMBDA t : [t EXCEPT !.pc = BitOr(Shl(t.val, 8), t.lo),
                             !.defined = @ \cup {"pc"},
                             !.remaining_cycles = @ + 7])

----------------------------------------------------------------------------
(* The PPU's registers and its bus.                                        *)

\* PPU._REGISTER_ADDRESS_MASK
_REGISTER_ADDRESS_MASK == 8
\* PPU._MAX_SCANLINE and PPU._MAX_CYCLE
_MAX_SCANLINE == 260
_MAX_CYCLE == 340
\* PPUBus._VRAM_ADDRESS_MASK and PPUBus._PALETTE_ADDRESS_MASK
_VRAM_ADDRESS_MASK == 2047
_PALETTE_ADDRESS_MASK == 31

\* The bit-fields of _Address.flags, little-endian: <<first bit, width>>
_PPUADDRESS ==
    [coarse_x |-> <<0, 5>>, coarse_y |-> <<5, 5>>, nt_select_x |-> <<10, 1>>,
     nt_select_y |-> <<11, 1>>, fine_y |-> <<12, 3>>]

\* The bit-fields of _Control.flags that the PPU reads
_PPUCTRL ==
    [base_nt_address |-> <<0, 2>>, vram_address_increment |-> <<2, 1>>,
     background_pt_address |-> <<4, 1>>]

\* reg.flags.f of a ctypes union
Field(reg, f) == (reg \div (2 ^ f[1])) % (2 ^ f[2])

\* reg.flags.f = v: v is cut to the width of the field, the other bits stay
WithField(reg, f, v) == reg + ((v % (2 ^ f[2])) - Field(reg, f)) * (2 ^ f[1])

\* A c_uint16 register
c_uint16(v) == v % 65536

PaletteIndex_unmirrored(address) == BitAnd(address, _PALETTE_ADDRESS_MASK)

\* The index into PPUBus._vram_palette
PaletteIndex(address) ==
    BitAnd(IF BitAnd(address, 19) = 16 THEN address - 16 ELSE address,
           _PALETTE_ADDRESS_MASK)

PPUBus_read_unfolded(bus, address) ==
    IF 8192 <= address /\ address <= 12287
    THEN [ok |-> TRUE, data |-> RamGet(bus._vram, BitAnd(address, 4095))]
    ELSE IF 16128 <= address /\ address <= 16383
    THEN [ok |-> TRUE,
          data |-> RamGet(bus._vram_palette, PaletteIndex(address))]
    ELSE [ok |-> FALSE, data |-> 0]

\* PPUBus.read: the byte, or the invalid-address exception
PPUBus_read(bus, address) ==
    IF 8192 <= address /\ address <= 12287               \* 0x2000 - 0x2FFF
    THEN [ok |-> TRUE,
          data |-> RamGet(bus._vram, BitAnd(address, _VRAM_ADDRESS_MASK))]
    ELSE IF 16128 <= address /\ address <= 16383         \* 0x3F00 - 0x3FFF
    THEN [ok |-> TRUE,
          data |-> RamGet(bus._vram_palette, PaletteIndex(address))]
    ELSE [ok |-> FALSE, data |-> 0]

\* PPUBus.write: the bus after it, or the invalid-address exception
PPUBus_write(bus, address, data) ==
    IF 8192 <= address /\ address <= 12287
    THEN [ok |-> TRUE,
          bus |-> [bus EXCEPT !._vram =
                       RamSet(@, BitAnd(address, _VRAM_ADDRESS_MASK), data)]]
    ELSE IF 16128 <= address /\ address <= 16383
    THEN [ok |-> TRUE,
          bus |-> [bus EXCEPT !._vram_palette =
                       RamSet(@, PaletteIndex(address), data)]]
    ELSE [ok |-> FALSE, bus |-> bus]

\* PPUBus.__init__
PPUBus_new ==
    [kind |-> "PPUBus", _vram |-> <<>>, _vram_palette |-> <<>>,
     scripted |-> FALSE, return_value |-> 0, side_effect |-> <<>>]

\* mock_ppu_bus: read returns return_value, or the next value of side_effect
\* when the test has set one
MockBus(scripted, return_value, side_effect) ==
    [kind |-> "Mock", _vram |-> <<>>, _vram_palette |-> <<>>,
     scripted |-> scripted, return_value |-> return_value,
     side_effect |-> side_effect]

----------------------------------------------------------------------------
(* The PPU's methods, as functions of a record st: the PPU's attributes    *)
(* (self), its bus, the accesses made so far (calls), the exception raised *)
(* (fault), the value the last bus read returned (val) and the value the   *)
(* method returns (ret).                                                   *)

\* The attributes that reset() assigns
ResetAttributes ==
    {"_write_latch", "_fine_x", "_data_read_buffer", "_palette_latch",
     "_pt_latch_hi", "_pt_latch_lo", "_pt_shift_hi", "_pt_shift_lo",
     "_at_shift_hi", "_at_shift_lo"}

\* PPU.__init__ and the class attributes of PPU; attrs holds the names of
\* the instance attributes that exist, the others are kept at 0
PPU_new ==
    [_control |-> 0, _mask |-> 0, _status |-> 0, _vram |-> 0, _vram_temp |-> 0,
     _fine_x |-> 0, _write_latch |-> 0, _data_read_buffer |-> 0,
     _nametable_latch |-> 0, _palette_latch |-> 0, _pt_address |-> 0,
     _pt_latch_lo |-> 0, _pt_latch_hi |-> 0,
     _pt_shift_hi |-> 0, _pt_shift_lo |-> 0,
     _at_shift_hi |-> 0, _at_shift_lo |-> 0,
     _scanline |-> -1, _cycle |-> 0,
     attrs |-> {}]

\* Reading attributes that were never assigned is an AttributeError
Need(st, names) ==
    IF st.fault # "none" \/ names \subseteq st.self.attrs THEN st
    ELSE [st EXCEPT !.fault = "AttributeError"]

\* PPU._read
PPU__read(st, address) ==
    IF st.fault # "none" THEN st
    ELSE IF st.bus.kind = "Mock"
    THEN IF ~st.bus.scripted
         THEN [st EXCEPT !.val = st.bus.return_value,
                         !.calls = Append(@, <<"read", address,
                                               st.bus.return_value>>)]
         ELSE IF st.bus.side_effect = <<>>
         THEN [st EXCEPT !.fault = "StopIteration",
                         !.calls = Append(@, <<"read", address, 0>>)]
         ELSE [st EXCEPT !.val = Head(st.bus.side_effect),
                         !.bus.side_effect = Tail(@),
                         !.calls = Append(@, <<"read", address,
                                               Head(st.bus.side_effect)>>)]
    ELSE IF PPUBus_read(st.bus, address).ok
    THEN [st EXCEPT !.val = PPUBus_read(st.bus, address).data,
                    !.calls = Append(@, <<"read", address,
                                          PPUBus_read(st.bus, address).data>>)]
    ELSE [st EXCEPT !.fault = "InvalidAddress",
                    !.calls = Append(@, <<"read", address, 0>>)]

\* PPU._write
PPU__write(st, address, data) ==
    IF st.fault # "none" THEN st
    ELSE IF st.bus.kind = "Mock"
    THEN [st EXCEPT !.calls = Append(@, <<"write", address, data>>)]
    ELSE IF PPUBus_write(st.bus, address, data).ok
    THEN [st EXCEPT !.bus = PPUBus_write(st.bus, address, data).bus,
                    !.calls = Append(@, <<"write", address, data>>)]
    ELSE [st EXCEPT !.fault = "InvalidAddress",
                    !.calls = Append(@, <<"write", address, data>>)]

\* A faulty variant of PPU._increment_cycle: the scanline wraps one line early
_increment_cycle_short_frame(st) ==
    IF st.self._cycle = _MAX_CYCLE
    THEN [st EXCEPT !.self._cycle = 0,
                    !.self._scanline = IF @ < _MAX_SCANLINE - 1 THEN @ + 1
                                       ELSE -1]
    ELSE [st EXCEPT !.self._cycle = @ + 1]

\* PPU._increment_cycle
_increment_cycle(st) ==
    IF st.self._cycle = _MAX_CYCLE
    THEN [st EXCEPT !.self._cycle = 0,
                    !.self._scanline = IF @ < _MAX_SCANLINE THEN @ + 1 ELSE -1]
    ELSE [st EXCEPT !.self._cycle = @ + 1]

\* A faulty variant of PPU._increment_coarse_x: the wrap from 31 to 0 leaves
\* nt_select_x as it is
_increment_coarse_x_same_nametable(st) ==
    [st EXCEPT !.self._vram =
         WithField(@, _PPUADDRESS.coarse_x, Field(@, _PPUADDRESS.coarse_x) + 1)]

\* PPU._increment_coarse_x
_increment_coarse_x(st) ==
    IF Field(st.self._vram, _PPUADDRESS.coarse_x) = 31
    THEN [st EXCEPT !.self._vram =
              WithField(WithField(@, _PPUADDRESS.coarse_x, 0),
                        _PPUADDRESS.nt_select_x,
                        BitXor(Field(@, _PPUADDRESS.nt_select_x), 1))]
    ELSE [st EXCEPT !.self._vram =
              WithField(@, _PPUADDRESS.coarse_x,
                        Field(@, _PPUADDRESS.coarse_x) + 1)]

\* A faulty variant of PPU._increment_y: coarse_y wraps after 31, not after 29
_increment_y_wrap_at_31(st) ==
    IF Field(st.self._vram, _PPUADDRESS.fine_y) < 7
    THEN [st EXCEPT !.self._vram =
              WithField(@, _PPUADDRESS.fine_y,
                        Field(@, _PPUADDRESS.fine_y) + 1)]
    ELSE IF Field(st.self._vram, _PPUADDRESS.coarse_y) = 31
    THEN [st EXCEPT !.self._vram =
              WithField(WithField(WithField(@, _PPUADDRESS.fine_y, 0),
                                  _PPUADDRESS.coarse_y, 0),
                        _PPUADDRESS.nt_select_y,
                        BitXor(Field(@, _PPUADDRESS.nt_select_y), 1))]
    ELSE [st EXCEPT !.self._vram =
              WithField(WithField(@, _PPUADDRESS.fine_y, 0),
                        _PPUADDRESS.coarse_y,
                        Field(@, _PPUADDRESS.coarse_y) + 1)]

\* PPU._increment_y
_increment_y(st) ==
    IF Field(st.self._vram, _PPUADDRESS.fine_y) < 7
    THEN [st EXCEPT !.self._vram =
              WithField(@, _PPUADDRESS.fine_y,
                        Field(@, _PPUADDRESS.fine_y) + 1)]
    ELSE IF Field(st.self._vram, _PPUADDRESS.coarse_y) = 29
    THEN [st EXCEPT !.self._vram =
              WithField(WithField(WithField(@, _PPUADDRESS.fine_y, 0),
                                  _PPUADDRESS.coarse_y, 0),
                        _PPUADDRESS.nt_select_y,
                        BitXor(Field(@, _PPUADDRESS.nt_select_y), 1))]
    ELSE [st EXCEPT !.self._vram =
              WithField(WithField(@, _PPUADDRESS.fine_y, 0),
                        _PPUADDRESS.coarse_y,
                        Field(@, _PPUADDRESS.coarse_y) + 1)]

\* PPU._load_shift_registers; _at_shift_lo is built from the _at_shift_hi
\* that was just assigned
_load_shift_registers(st) ==
    Do4(Need(st, {"_pt_shift_hi", "_pt_shift_lo", "_at_shift_hi",
                  "_pt_latch_hi", "_pt_latch_lo", "_palette_latch"}),
        LAMBDA t : [t EXCEPT !.self._pt_shift_hi =
                        BitOr(BitAnd(@, 65280), t.self._pt_latch_hi)],
        LAMBDA t : [t EXCEPT !.self._pt_shift_lo =
                        BitOr(BitAnd(@, 65280), t.self._pt_latch_lo)],
        LAMBDA t : [t EXCEPT !.self._at_shift_hi =
                        BitOr(BitAnd(@, 65280),
                              IF BitAnd(t.self._palette_latch, 2) # 0
                              THEN 255 ELSE 0)],
        LAMBDA t : [t EXCEPT !.self._at_shift_lo =
                        BitOr(BitAnd(t.self._at_shift_hi, 65280),
                              IF BitAnd(t.self._palette_latch, 1) # 0
                              THEN 255 ELSE 0),
                             !.self.attrs = @ \cup {"_at_shift_lo"}])

\* PPU._shift_background_registers; the attributes are Python integers
_shift_background_registers(st) ==
    Bind(Need(st, {"_pt_shift_hi", "_pt_shift_lo", "_at_shift_hi",
                   "_at_shift_lo"}),
         LAMBDA t : [t EXCEPT !.self._pt_shift_hi = Shl(@, 1),
                              !.self._pt_shift_lo = Shl(@, 1),
                              !.self._at_shift_hi = Shl(@, 1),
                              !.self._at_shift_lo = Shl(@, 1)])

\* Does clock() fetch at this scanline and cycle
Rendering(scanline) == -1 <= scanline /\ scanline <= 239

\* A faulty variant of Fetching: cycles 257 - 320 fetch as well
Fetching_without_gap(cycle) == 1 <= cycle /\ cycle <= 340

\* A faulty variant of Fetching: no fetches in cycles 321 - 340
Fetching_visible_only(cycle) == 1 <= cycle /\ cycle <= 256

Fetching(cycle) == (1 <= cycle /\ cycle <= 256) \/ (321 <= cycle /\ cycle <= 340)

\* clock(), rendering_cycle == 0: reload the shifters, read the tile id
FetchNametable(st) ==
    Do3(st,
        LAMBDA t : _load_shift_registers(t),
        LAMBDA t : PPU__read(t, BitOr(8192, BitAnd(t.self._vram, 4095))),
        LAMBDA t : [t EXCEPT !.self._nametable_latch = t.val,
                             !.self.attrs = @ \cup {"_nametable_latch"}])

\* clock(), rendering_cycle == 2: read the attribute byte, keep two bits
FetchAttribute(st) ==
    Do2(st,
        LAMBDA t : PPU__read(t,
            BitOr(BitOr(BitOr(9152,                              \* 0x23C0
                              BitAnd(t.self._vram, 3072)),       \* 0x0C00
                        (Field(t.self._vram, _PPUADDRESS.coarse_y) \div 4) * 8),
                  Field(t.self._vram, _PPUADDRESS.coarse_x) \div 4)),
        LAMBDA t : [t EXCEPT !.self._palette_latch =
            BitAnd(Shr(Shr(t.val,
                           IF Field(t.self._vram, _PPUADDRESS.coarse_y) % 4 >= 2
                           THEN 4 ELSE 0),
                       IF Field(t.self._vram, _PPUADDRESS.coarse_x) % 4 >= 2
                       THEN 2 ELSE 0),
                   3)])

\* clock(), rendering_cycle == 4: the bus is read at the address
\* _nametable_latch, and what it returns goes into the pattern address
FetchPatternLow(st) ==
    Do4(Need(st, {"_nametable_latch"}),
        LAMBDA t : PPU__read(t, t.self._nametable_latch),
        LAMBDA t : [t EXCEPT !.self._pt_address =
                        BitOr(BitOr(Shl(Field(t.self._control,
                                              _PPUCTRL.background_pt_address),
                                        12),
                                    Shl(t.val, 4)),
                              Field(t.self._vram, _PPUADDRESS.fine_y)),
                             !.self.attrs = @ \cup {"_pt_address"}],
        LAMBDA t : PPU__read(t, t.self._pt_address),
        LAMBDA t : [t EXCEPT !.self._pt_latch_lo = t.val])

\* clock(), rendering_cycle == 6
FetchPatternHigh(st) ==
    Do2(Need(st, {"_pt_address"}),
        LAMBDA t : PPU__read(t, t.self._pt_address + 8),
        LAMBDA t : [t EXCEPT !.self._pt_latch_hi = t.val])

\* clock(): the branch of rendering_cycle = (cycle - 1) % 8
FetchStage(st) ==
    IF (st.self._cycle - 1) % 8 = 0 THEN FetchNametable(st)
    ELSE IF (st.self._cycle - 1) % 8 = 2 THEN FetchAttribute(st)
    ELSE IF (st.self._cycle - 1) % 8 = 4 THEN FetchPatternLow(st)
    ELSE IF (st.self._cycle - 1) % 8 = 6 THEN FetchPatternHigh(st)
    ELSE IF (st.self._cycle - 1) % 8 = 7
    THEN (IF st.self._cycle = 256 THEN _increment_y(st)
          ELSE _increment_coarse_x(st))
    ELSE st

\* PPU.clock
PPU_clock(st) ==
    Do3(st,
        LAMBDA t : IF Rendering(t.self._scanline) /\ t.self._cycle = 257
                   THEN _load_shift_registers(
                            [t EXCEPT !.self._vram =
                                 WithField(@, _PPUADDRESS.coarse_x,
                                           Field(t.self._vram_temp,
                                                 _PPUADDRESS.coarse_x))])
                   ELSE t,
        LAMBDA t : IF Rendering(t.self._scanline) /\ Fetching(t.self._cycle)
                   THEN Do2(t,
                            LAMBDA u : _shift_background_registers(u),
                            LAMBDA u : FetchStage(u))
                   ELSE t,
        LAMBDA t : _increment_cycle(t))

\* The increment of v that the control register selects
AddressIncrement(st) ==
    IF Field(st.self._control, _PPUCTRL.vram_address_increment) = 1
    THEN 32 ELSE 1

\* A faulty variant of ReadData: what the bus returns is returned at once,
\* below 0x3F00 too
ReadData_unbuffered(st) ==
    Do3(Need(st, {"_data_read_buffer"}),
        LAMBDA t : PPU__read(t, t.self._vram),
        LAMBDA t : [t EXCEPT !.self._data_read_buffer = t.val,
                             !.ret = t.val],
        LAMBDA t : [t EXCEPT !.self._vram = c_uint16(@ + AddressIncrement(t))])

\* A faulty variant of ReadData: the buffer is returned from 0x3F00 on too
ReadData_always_buffered(st) ==
    Do3(Need(st, {"_data_read_buffer"}),
        LAMBDA t : PPU__read([t EXCEPT !.ret = t.self._data_read_buffer],
                             t.self._vram),
        LAMBDA t : [t EXCEPT !.self._data_read_buffer = t.val],
        LAMBDA t : [t EXCEPT !.self._vram = c_uint16(@ + AddressIncrement(t))])

\* PPU.read, address % 8 == 7
ReadData(st) ==
    Do3(Need(st, {"_data_read_buffer"}),
        LAMBDA t : PPU__read([t EXCEPT !.ret = t.self._data_read_buffer],
                             t.self._vram),
        LAMBDA t : [t EXCEPT !.self._data_read_buffer = t.val,
                             !.ret = IF t.self._vram >= 16128       \* 0x3F00
                                     THEN t.val ELSE @],
        LAMBDA t : [t EXCEPT !.self._vram = c_uint16(@ + AddressIncrement(t))])

\* PPU.read; a call that reaches no return statement returns None
PPU_read(st, address) ==
    IF 8192 <= address /\ address <= 16383                  \* 0x2000 - 0x3FFF
    THEN IF address % _REGISTER_ADDRESS_MASK = 2
         THEN [st EXCEPT !.self._write_latch = 0,
                         !.self.attrs = @ \cup {"_write_latch"},
                         !.ret = st.self._status]
         ELSE IF address % _REGISTER_ADDRESS_MASK = 7
         THEN ReadData(st)
         ELSE st
    ELSE st

\* A faulty variant of WriteScroll: the second write leaves the latch set
WriteScroll_latch_kept(st, data) ==
    Bind(Need(st, {"_write_latch"}),
         LAMBDA t :
            IF t.self._write_latch = 0
            THEN [t EXCEPT !.self._vram_temp =
                               WithField(@, _PPUADDRESS.coarse_x, Shr(data, 3)),
                           !.self._fine_x = BitAnd(data, 7),
                           !.self._write_latch = 1,
                           !.self.attrs = @ \cup {"_fine_x"}]
            ELSE [t EXCEPT !.self._vram_temp =
                               WithField(WithField(@, _PPUADDRESS.coarse_y,
                                                   Shr(data, 3)),
                                         _PPUADDRESS.fine_y, BitAnd(data, 7))])

\* PPU.write, address % 8 == 5
WriteScroll(st, data) ==
    Bind(Need(st, {"_write_latch"}),
         LAMBDA t :
            IF t.self._write_latch = 0
            THEN [t EXCEPT !.self._vram_temp =
                               WithField(@, _PPUADDRESS.coarse_x, Shr(data, 3)),
                           !.self._fine_x = BitAnd(data, 7),
                           !.self._write_latch = 1,
                           !.self.attrs = @ \cup {"_fine_x"}]
            ELSE [t EXCEPT !.self._vram_temp =
                               WithField(WithField(@, _PPUADDRESS.coarse_y,
                                                   Shr(data, 3)),
                                         _PPUADDRESS.fine_y, BitAnd(data, 7)),
                           !.self._write_latch = 0])

\* A faulty variant of WriteAddress: the first write keeps all eight bits
WriteAddress_unmasked(st, data) ==
    Bind(Need(st, {"_write_latch"}),
         LAMBDA t :
            IF t.self._write_latch = 0
            THEN [t EXCEPT !.self._vram_temp =
                               c_uint16(BitOr(Shl(data, 8), BitAnd(@, 255))),
                           !.self._write_latch = 1]
            ELSE [t EXCEPT !.self._vram_temp =
                               c_uint16(BitOr(BitAnd(@, 65280), data)),
                           !.self._vram =
                               c_uint16(BitOr(BitAnd(t.self._vram_temp, 65280),
                                              data)),
                           !.self._write_latch = 0])

\* PPU.write, address % 8 == 6
WriteAddress(st, data) ==
    Bind(Need(st, {"_write_latch"}),
         LAMBDA t :
            IF t.self._write_latch = 0
            THEN [t EXCEPT !.self._vram_temp =
                               c_uint16(BitOr(Shl(BitAnd(data, 63), 8),
                                              BitAnd(@, 255))),
                           !.self._write_latch = 1]
            ELSE [t EXCEPT !.self._vram_temp =
                               c_uint16(BitOr(BitAnd(@, 65280), data)),
                           !.self._vram =
                               c_uint16(BitOr(BitAnd(t.self._vram_temp, 65280),
                                              data)),
                           !.self._write_latch = 0])

\* PPU.write
PPU_write(st, address, data) ==
    IF 8192 <= address /\ address <= 16383
    THEN IF address % _REGISTER_ADDRESS_MASK = 0
         THEN [st EXCEPT
                  !.self._control = c_uint8(data),
                  !.self._vram_temp =
                      WithField(WithField(@, _PPUADDRESS.nt_select_x,
                                          BitAnd(Field(c_uint8(data),
                                                       _PPUCTRL.base_nt_address),
                                                 1)),
                                _PPUADDRESS.nt_select_y,
                                BitAnd(Shr(Field(c_uint8(data),
                                                 _PPUCTRL.base_nt_address), 1),
                                       1))]
         ELSE IF address % _REGISTER_ADDRESS_MASK = 1
         THEN [st EXCEPT !.self._mask = c_uint8(data)]
         ELSE IF address % _REGISTER_ADDRESS_MASK = 5
         THEN WriteScroll(st, data)
         ELSE IF address % _REGISTER_ADDRESS_MASK = 6
         THEN WriteAddress(st, data)
         ELSE IF address % _REGISTER_ADDRESS_MASK = 7
         THEN Bind(PPU__write(st, st.self._vram, data),
                   LAMBDA t : [t EXCEPT !.self._vram =
                                   c_uint16(@ + AddressIncrement(t))])
         ELSE st
    ELSE st

\* PPU.reset; the counters, _nametable_latch and _pt_address are not assigned
PPU_reset(st) ==
    [st EXCEPT !.self._control = 0, !.self._mask = 0, !.self._status = 0,
               !.self._vram = 0, !.self._vram_temp = 0,
               !.self._write_latch = 0, !.self._fine_x = 0,
               !.self._data_read_buffer = 0,
               !.self._palette_latch = 0,
               !.self._pt_latch_hi = 0, !.self._pt_latch_lo = 0,
               !.self._pt_shift_hi = 0, !.self._pt_shift_lo = 0,
               !.self._at_shift_hi = 0, !.self._at_shift_lo = 0,
               !.self.attrs = @ \cup ResetAttributes]

----------------------------------------------------------------------------
(* The ROM file, the mapper and the cartridge (purenes/rom.py,             *)
(* purenes/mappers, purenes/cartridge.py).  A bytes object is a window on  *)
(* a file: the file (its first bytes, head, and its length, size), the     *)
(* offset the window starts at, from, and its length, len.  The bytes of a *)
(* file after its head are the offset modulo 251, so that two offsets a    *)
(* bank apart hold different bytes.                                        *)

Min(m, n) == IF m < n THEN m ELSE n

\* The byte at offset i of a file
FileByte(file, i) ==
    IF i < Len(file.head) THEN file.head[i + 1] ELSE i % 251

\* The bytes object open(file_path, "rb").read() returns
Bytes(file) == [of |-> file, from |-> 0, len |-> file.size]

\* bytes[lo:hi] for 0 <= lo and 0 <= hi: the ends are cut to the length
Slice(bytes, lo, hi) ==
    [of |-> bytes.of,
     from |-> bytes.from + Min(lo, bytes.len),
     len |-> IF Min(hi, bytes.len) > Min(lo, bytes.len)
             THEN Min(hi, bytes.len) - Min(lo, bytes.len) ELSE 0]

\* bytes[i]: a negative index counts from the end; IndexError outside
Index(bytes, i) ==
    IF 0 <= i /\ i < bytes.len
    THEN [ok |-> TRUE, data |-> FileByte(bytes.of, bytes.from + i)]
    ELSE IF -bytes.len <= i /\ i < 0
    THEN [ok |-> TRUE,
          data |-> FileByte(bytes.of, bytes.from + bytes.len + i)]
    ELSE [ok |-> FALSE, data |-> 0]

\* The names of class Mirroring by value
Mirroring(value) == IF value = 0 THEN "HORIZONTAL" ELSE "VERTICAL"

ines_header == <<78, 69, 83, 26>>                   \* 0x4E, 0x45, 0x53, 0x1A

\* An exception leaving a constructor: no object is made
Raised(exception, text) == [fault |-> exception, message |-> text]

\* header = rom_data[0: 16]
header_bytes(rom_bytes) == Slice(rom_bytes, 0, 16)

\* Header.__init__: the comparison of the first four bytes and the reads of
\* header[4] .. header[7] raise IndexError when the file is shorter
Header(rom_bytes) ==
    IF header_bytes(rom_bytes).len < 4 THEN Raised("IndexError", <<>>)
    ELSE IF \E i \in 0 .. 3 :
                Index(header_bytes(rom_bytes), i).data # ines_header[i + 1]
    THEN Raised("RuntimeError", <<"Invalid iNES Header">>)
    ELSE IF header_bytes(rom_bytes).len < 8 THEN Raised("IndexError", <<>>)
    ELSE [fault |-> "none", message |-> <<>>,
          prg_banks |-> Index(header_bytes(rom_bytes), 4).data,
          chr_banks |-> Index(header_bytes(rom_bytes), 5).data,
          prg_rom_size |-> 16384 * Index(header_bytes(rom_bytes), 4).data,
          chr_rom_size |-> 8192 * Index(header_bytes(rom_bytes), 5).data,
          nt_mirroring |->
              Mirroring(BitAnd(Index(header_bytes(rom_bytes), 6).data, 1)),
          trainer |-> BitAnd(Index(header_bytes(rom_bytes), 6).data, 4),
          mapper_id |->
              BitOr(BitAnd(Index(header_bytes(rom_bytes), 7).data, 240),
                    Shr(Index(header_bytes(rom_bytes), 6).data, 4))]

\* The locals of Rom.__init__
trainer_offset(header) == IF header.trainer # 0 THEN 512 ELSE 0

prg_data_offset(header) == 16 + trainer_offset(header)

chr_data_offset(header) == prg_data_offset(header) + header.prg_rom_size

\* Rom.__init__
Rom(rom_bytes) ==
    IF Header(rom_bytes).fault # "none" THEN Header(rom_bytes)
    ELSE [fault |-> "none", message |-> <<>>,
          header |-> Header(rom_bytes),
          _prg_rom |-> Slice(rom_bytes,
                             prg_data_offset(Header(rom_bytes)),
                             chr_data_offset(Header(rom_bytes))),
          _chr_rom |-> Slice(rom_bytes,
                             chr_data_offset(Header(rom_bytes)),
                             chr_data_offset(Header(rom_bytes))
                             + Header(rom_bytes).chr_rom_size)]

\* Rom.read_prg_rom and Rom.read_chr_rom
read_prg_rom(self, address) == Index(self._prg_rom, address)

read_chr_rom(self, address) == Index(self._chr_rom, address)

\* Mapper.__init__ for class Mapper0
Mapper0(rom_object) == [name |-> "NROM", rom |-> rom_object]

\* Mapper0.ppu_read
Mapper0_ppu_read(self, address) == read_chr_rom(self.rom, address)

Mapper0_cpu_read_one_window(self, address) ==
    read_prg_rom(self.rom, BitAnd(address, 32767))

\* Mapper0.cpu_read
Mapper0_cpu_read(self, address) ==
    read_prg_rom(self.rom,
                 IF self.rom.header.prg_banks = 2
                 THEN BitAnd(address, 32767)                      \* 0x7FFF
                 ELSE BitAnd(address, 16383))                     \* 0x3FFF

\* The registry: mapper id to mapper class
SUPPORTED_MAPPERS == (0 :> "Mapper0")

\* Cartridge.__init__
Cartridge(mapper) ==
    [_mapper |-> mapper, nt_mirroring |-> mapper.rom.header.nt_mirroring]

Cartridge_from_file_any_mapper(file) ==
    IF Rom(Bytes(file)).fault # "none" THEN Rom(Bytes(file))
    ELSE [fault |-> "none", message |-> <<>>,
          cartridge |-> Cartridge(Mapper0(Rom(Bytes(file))))]

\* Cartridge.from_file: an exception of Rom() leaves it as it is, the
\* KeyError of the registry becomes a RuntimeError with the mapper id
Cartridge_from_file(file) ==
    IF Rom(Bytes(file)).fault # "none" THEN Rom(Bytes(file))
    ELSE IF Rom(Bytes(file)).header.mapper_id \notin DOMAIN SUPPORTED_MAPPERS
    THEN Raised("RuntimeError",
                <<"This Mapper is not currently supported",
                  Rom(Bytes(file)).header.mapper_id>>)
    ELSE [fault |-> "none", message |-> <<>>,
          cartridge |-> Cartridge(Mapper0(Rom(Bytes(file))))]

\* Cartridge.cpu_read and Cartridge.ppu_read
Cartridge_cpu_read(self, address) == Mapper0_cpu_read(self._mapper, address)

Cartridge_ppu_read(self, address) == Mapper0_ppu_read(self._mapper, address)

----------------------------------------------------------------------------

(* Bounds and inputs.                                                      *)

\* Opcode fetches in one run
MaxInstr == 2
\* reset() calls in one run
MaxResets == 1
\* Host calls of CPUBus.write in one run
MaxWrites == 1

Byte == 0 .. 255

\* Where the harness puts the program: 0x0000, 0x00FD, 0x8000
StartPCs == {0, 253, 32768}

\* The two operand bytes after the opcode:
\* 0x10 0x00, 0xFF 0x00, 0x80 0x01
OperandPairs == {<<16, 0>>, <<255, 0>>, <<128, 1>>}

\* Register values the harness assigns before it clocks the CPU
RegisterFiles ==
    { [a |-> 0,   x |-> 0,   y |-> 0,   s |-> 253, status |-> 0],
      [a |-> 129, x |-> 1,   y |-> 2,   s |-> 0,   status |-> 195],
      [a |-> 127, x |-> 255, y |-> 128, s |-> 255, status |-> 60] }

\* Opcodes of the life-cycle runs: BRK, BPL, JSR, PHA, PLA, ADC #, STA abs,
\* LDA abs,X, and 0xEA, 0x60, 0xC9
LifecycleOpcodes == {0, 16, 32, 72, 104, 105, 141, 189, 234, 96, 201}

\* Addresses and data of the host's direct bus calls:
\* -1, 0x0000, 0x0005, 0x01FF, 0x0205, 0x07FF, 0x0805, 0x1FFF, 0x2000, 0x10000
HostAddresses == {-1, 0, 5, 511, 517, 2047, 2053, 8191, 8192, 65536}
HostData == {0, 1, 165, 255}

\* The Mock's script: the program at p, the reset vector pointing at it,
\* the interrupt vector holding 0x0201
Program(p, opc, operands) ==
    (p :> opc) @@ (p + 1 :> operands[1]) @@ (p + 2 :> operands[2])
    @@ (_RES :> p % 256) @@ (_RES + 1 :> p \div 256)
    @@ (_IRQ :> 1) @@ (_IRQ + 1 :> 2)

\* RAM after the host has written the program at p with CPUBus.write
Loaded(p, opc, operands) ==
    LET r1 == CPUBus_write(<<>>, p, opc).ram
        r2 == CPUBus_write(r1, p + 1, operands[1]).ram
    IN  CPUBus_write(r2, p + 2, operands[2]).ram

Snapshot ==
    [a |-> a, x |-> x, y |-> y, s |-> s, pc |-> pc, status |-> status,
     operation_value |-> operation_value,
     remaining_cycles |-> remaining_cycles, fetches |-> fetches]

\* A PPU just constructed on the given bus
PPUFresh(bus) ==
    /\ ppu = PPU_new
    /\ ppu_bus = bus
    /\ ret = "None"
    /\ before = PPU_new /\ start = PPU_new /\ origin = PPU_new
    /\ arg = <<>>
    /\ prev = [last |-> "new", arg |-> <<>>, before |-> PPU_new,
               calls |-> <<>>, ret |-> "None", fault |-> "none"]
    /\ clocks = -1 /\ run = 0 /\ ops = 0

\* The runs of the CPU alone: the PPU is constructed and never called
NoPPU == PPUFresh(PPUBus_new)

\* The name a host has not yet bound to an object
None == [class |-> "NoneType"]

\* The runs without a cartridge: no file is read
NoCartridge ==
    /\ rom_data = [head |-> <<>>, size |-> 0]
    /\ rom = None /\ cartridge = None
    /\ message = <<>>

\* The runs with one PPU and one CPU
Alone == twin = None

\* The registers that are attributes of class PPU, not of its instances: the
\* one object of each is what every PPU object reads and writes. What the
\* instance q holds after a call that left the instance p
ClassAttributes(q, p) ==
    [q EXCEPT !._control = p._control, !._mask = p._mask,
              !._status = p._status,
              !._vram = p._vram, !._vram_temp = p._vram_temp]

\* twin after a call on a PPU that left it as p: on the second PPU if
\* onTwin, else on the first
PPUSeen(p, onTwin) ==
    IF twin = None THEN twin
    ELSE [twin EXCEPT !.ppu = IF onTwin THEN p ELSE ClassAttributes(@, p),
                      !.ppu_was = twin.ppu,
                      !.called = onTwin]

\* CPU.status is an attribute of class CPU: twin after a call that left the
\* first CPU's status.reg as value
StatusSeen(value) ==
    IF twin = None THEN twin
    ELSE [twin EXCEPT !.status = value, !.status_was = twin.status]

----------------------------------------------------------------------------
(* Initial states: a CPU just constructed on its bus.                      *)

\* CPU.__init__ and the class attributes of CPU
Fresh ==
    /\ a = 0 /\ x = 0 /\ y = 0 /\ s = 0 /\ pc = 0
    /\ defined = {}
    /\ status = 0
    /\ opcode = 0 /\ operation_value = 0 /\ effective_address = 0
    /\ remaining_cycles = 0
    /\ addressing_mode = "none"
    /\ calls = <<>> /\ fault = "none" /\ last = "new"
    /\ ticks = 0 /\ fetches = 0 /\ resets = 0 /\ writes = 0
    /\ sinceReset = -1
    /\ busWrite = <<>> /\ hostRead = <<>>
    /\ pre = Snapshot

InitWith(opcodes, loaded) ==
    /\ Fresh
    /\ Alone
    /\ NoPPU
    /\ NoCartridge
    /\ entry \in StartPCs
    /\ \/ /\ busKind = "Mock"
          /\ ram = <<>>
          /\ fill = 255
          /\ \E opc \in opcodes, operands \in OperandPairs :
                 image = Program(entry, opc, operands)
       \/ /\ busKind = "CPUBus"
          /\ image = <<>>
          /\ fill = 0
          /\ IF loaded
             THEN /\ InRamRange(entry)
                  /\ \E opc \in opcodes, operands \in OperandPairs :
                         ram = Loaded(entry, opc, operands)
             ELSE ram = <<>>

\* Life-cycle runs: the bus as constructed
Init == InitWith(LifecycleOpcodes, FALSE)

\* Instruction runs: every opcode value, on the Mock or loaded into RAM
InitRun == InitWith(Byte, TRUE)

\* Stack runs: a push followed by a pull, PHA PLA, PHP PLP, PHA PLP and
\* PHP PLA, on the Mock or loaded into RAM
StackPrograms == {<<72, 104>>, <<8, 40>>, <<72, 40>>, <<8, 104>>}

InitStack ==
    /\ Fresh
    /\ Alone
    /\ NoPPU
    /\ NoCartridge
    /\ entry \in StartPCs
    /\ \E program \in StackPrograms :
          \/ /\ busKind = "Mock"
             /\ ram = <<>>
             /\ fill = 255
             /\ image = Program(entry, program[1], <<program[2], 0>>)
          \/ /\ busKind = "CPUBus"
             /\ image = <<>>
             /\ fill = 0
             /\ InRamRange(entry)
             /\ ram = Loaded(entry, program[1], <<program[2], 0>>)

\* Arithmetic runs: every accumulator, every operand, carry clear and set,
\* the other flags all clear or all set
InitArith ==
    /\ a \in Byte /\ operation_value \in Byte
    /\ status \in {0, 1, 254, 255}
    /\ x = 0 /\ y = 0 /\ s = 253 /\ pc = 0
    /\ defined = Registers
    /\ opcode = 0 /\ effective_address = 0
    /\ remaining_cycles = 0
    /\ addressing_mode = "imm"
    /\ busKind = "Mock" /\ ram = <<>> /\ image = <<>> /\ fill = 0
    /\ entry = 0
    /\ calls = <<>> /\ fault = "none" /\ last = "set"
    /\ ticks = 0 /\ fetches = 0 /\ resets = 0 /\ writes = 0
    /\ sinceReset = -1
    /\ busWrite = <<>> /\ hostRead = <<>>
    /\ pre = Snapshot
    /\ NoPPU
    /\ NoCartridge
    /\ Alone

----------------------------------------------------------------------------
(* Actions: one per call the host makes.                                   *)

Install(st) ==
    /\ a' = st.a /\ x' = st.x /\ y' = st.y /\ s' = st.s /\ pc' = st.pc
    /\ defined' = st.defined
    /\ status' = st.status
    /\ opcode' = st.opcode
    /\ operation_value' = st.operation_value
    /\ effective_address' = st.effective_address
    /\ remaining_cycles' = st.remaining_cycles
    /\ addressing_mode' = st.addressing_mode
    /\ ram' = st.ram
    /\ busWrite' = st.busWrite
    /\ calls' = st.calls
    /\ fault' = st.fault
    /\ twin' = StatusSeen(st.status)

\* The harness assigns the public attributes of a fresh CPU
SetRegisters ==
    /\ defined = {}
    /\ \E r \in RegisterFiles :
        /\ a' = r.a /\ x' = r.x /\ y' = r.y /\ s' = r.s
        /\ status' = c_uint8(r.status)
        /\ twin' = StatusSeen(c_uint8(r.status))
        /\ pc' = entry
    /\ defined' = Registers
    /\ calls' = <<>> /\ fault' = "none" /\ last' = "set"
    /\ hostRead' = <<>>
    /\ UNCHANGED <<opcode, operation_value, effective_address,
                   remaining_cycles, addressing_mode, busKind, ram, image,
                   fill, entry, pre, ticks, fetches, resets, sinceReset,
                   writes, busWrite>>
    /\ UNCHANGED <<ppuVars, cartVars>>

\* cpu.reset()
Reset ==
    /\ resets < MaxResets
    /\ Install(reset(Pack))
    /\ last' = "reset"
    /\ pre' = Snapshot
    /\ ticks' = 0
    /\ resets' = resets + 1
    /\ sinceReset' = IF fault' = "none" THEN 0 ELSE -1
    /\ hostRead' = <<>>
    /\ UNCHANGED <<busKind, image, fill, entry, fetches, writes>>
    /\ UNCHANGED <<ppuVars, cartVars>>

\* cpu.clock()
Clock ==
    LET fetching == remaining_cycles = 0 /\ "pc" \in defined IN
    /\ fetching => fetches < MaxInstr
    /\ Install(clock(Pack))
    /\ last' = "clock"
    /\ pre' = IF fetching THEN Snapshot ELSE pre
    /\ ticks' = IF fetching THEN (IF fault' = "none" THEN 1 ELSE 0)
                ELSE IF ticks = 0 \/ fault' # "none" THEN 0 ELSE ticks + 1
    /\ fetches' = IF fetching THEN fetches + 1 ELSE fetches
    /\ sinceReset' = IF sinceReset >= 0 THEN sinceReset + 1 ELSE sinceReset
    /\ hostRead' = <<>>
    /\ UNCHANGED <<busKind, image, fill, entry, resets, writes>>
    /\ UNCHANGED <<ppuVars, cartVars>>

\* cpu_bus.write(address, data), called by the host before it starts the CPU
HostWrite ==
    /\ busKind = "CPUBus"
    /\ defined = {}
    /\ writes < MaxWrites
    /\ \E address \in HostAddresses, data \in HostData :
        LET r == CPUBus_write(ram, address, data) IN
        /\ ram' = r.ram
        /\ busWrite' = IF r.ok THEN <<address, data>> ELSE busWrite
        /\ fault' = IF r.ok THEN "none" ELSE "InvalidAddress"
        /\ calls' = << <<"write", address, data>> >>
    /\ last' = "write"
    /\ writes' = writes + 1
    /\ hostRead' = <<>>
    /\ UNCHANGED <<a, x, y, s, pc, defined, status, opcode, operation_value,
                   effective_address, remaining_cycles, addressing_mode,
                   busKind, image, fill, entry, pre, ticks, fetches, resets,
                   sinceReset>>
    /\ UNCHANGED <<ppuVars, cartVars, twin>>

\* cpu_bus.read(address), called by the host before it starts the CPU
HostRead ==
    /\ busKind = "CPUBus"
    /\ defined = {}
    /\ \E address \in HostAddresses :
        LET r == CPUBus_read(ram, address) IN
        /\ hostRead' = <<address, r.ok, r.data>>
        /\ fault' = IF r.ok THEN "none" ELSE "InvalidAddress"
        /\ calls' = << <<"read", address, r.data>> >>
    /\ last' = "read"
    /\ UNCHANGED <<a, x, y, s, pc, defined, status, opcode, operation_value,
                   effective_address, remaining_cycles, addressing_mode,
                   busKind, ram, image, fill, entry, pre, ticks, fetches,
                   resets, sinceReset, writes, busWrite>>
    /\ UNCHANGED <<ppuVars, cartVars, twin>>

\* The harness of the arithmetic tests: operation_value is assigned and the
\* operation applied to it
ExecADC ==
    /\ last = "set"
    /\ Install(_ADC(Pack))
    /\ last' = "ADC"
    /\ pre' = Snapshot
    /\ UNCHANGED <<busKind, image, fill, entry, ticks, fetches, resets,
                   sinceReset, writes, hostRead>>
    /\ UNCHANGED <<ppuVars, cartVars>>

ExecSBC ==
    /\ last = "set"
    /\ Install(_SBC(Pack))
    /\ last' = "SBC"
    /\ pre' = Snapshot
    /\ UNCHANGED <<busKind, image, fill, entry, ticks, fetches, resets,
                   sinceReset, writes, hostRead>>
    /\ UNCHANGED <<ppuVars, cartVars>>

Next == SetRegisters \/ Reset \/ Clock \/ HostWrite \/ HostRead

NextRun == SetRegisters \/ Clock

Spec == Init /\ [][Next]_vars

SpecRun == InitRun /\ [][NextRun]_vars

SpecStack == InitStack /\ [][NextRun]_vars

NextArith == ExecADC \/ ExecSBC

SpecArith == InitArith /\ [][NextArith]_vars

----------------------------------------------------------------------------
(* The PPU on its own: the calls a host makes on it.                       *)

\* Register accesses and reset() calls in one run of the register interface
MaxRegOps == 5
\* clock() calls after them
MaxRegClocks == 1
\* Register writes and reset() calls before a run over scanlines
MaxLineOps == 4
\* clock() calls of such a run: two scanlines and one cycle more
MaxLineClocks == 683
\* clock() calls of a run over a frame: 341 x 262 and one more
MaxFrameClocks == 89343

\* PPU.write(address, data) calls of the register runs: $2006 (also through
\* its mirror $3FFE), $2000, $2005 and $2007
RegWrites ==
    {<<8198, 63>>, <<16382, 32>>, <<8192, 4>>, <<8197, 249>>, <<8199, 165>>}

\* PPU.read(address) calls of the register runs: $2002 and $2007
RegReads == {8194, 8199}

\* The writes that set v and t before a run over scanlines
LineWrites ==
    {<<8198, 4>>, <<8198, 0>>, <<8198, 1>>, <<8197, 240>>, <<8197, 248>>,
     <<8192, 1>>}

\* The buses a PPU is constructed with: PPUBus, and the Mock of the tests
\* with a return value or with the values of a side effect
RegBuses ==
    {PPUBus_new, MockBus(FALSE, 0, <<>>), MockBus(TRUE, 0, <<165, 90, 60>>)}

RenderBuses == {PPUBus_new, MockBus(FALSE, 0, <<>>), MockBus(FALSE, 165, <<>>)}

\* The CPU of these runs: constructed and never called
NoCPU ==
    /\ Fresh
    /\ busKind = "CPUBus" /\ ram = <<>> /\ image = <<>> /\ fill = 0
    /\ entry = 0

InitRegs == NoCPU /\ NoCartridge /\ Alone /\ \E bus \in RegBuses : PPUFresh(bus)

InitRender ==
    NoCPU /\ NoCartridge /\ Alone /\ \E bus \in RenderBuses : PPUFresh(bus)

PPUPack ==
    [self |-> ppu, bus |-> ppu_bus, calls |-> <<>>, fault |-> "none",
     val |-> 0, ret |-> "None"]

PPUInstall(st, name, args) ==
    /\ ppu' = st.self
    /\ ppu_bus' = st.bus
    /\ calls' = st.calls
    /\ fault' = st.fault
    /\ ret' = IF st.fault = "none" THEN st.ret ELSE "None"
    /\ last' = name
    /\ arg' = args
    /\ before' = ppu
    /\ prev' = [last |-> last, arg |-> arg, before |-> before,
                calls |-> calls, ret |-> ret, fault |-> fault]
    /\ twin' = PPUSeen(st.self, FALSE)
    /\ UNCHANGED <<cpuVars, cartVars>>

\* What a call other than clock() does to the counts of clock() calls
Paused ==
    /\ origin' = ppu'
    /\ run' = 0
    /\ clocks' = -1
    /\ ops' = ops + 1
    /\ UNCHANGED start

\* ppu.reset()
CallReset ==
    /\ PPUInstall(PPU_reset(PPUPack), "PPU.reset", <<>>)
    /\ Paused

\* ppu.write(address, data)
CallWrite(address, data) ==
    /\ PPUInstall(PPU_write(PPUPack, address, data), "PPU.write",
                  <<address, data>>)
    /\ Paused

\* ppu.read(address)
CallRead(address) ==
    /\ PPUInstall(PPU_read(PPUPack, address), "PPU.read", <<address>>)
    /\ Paused

\* ppu.clock(); the host stops clocking when a call has raised
CallClock ==
    /\ run >= 0
    /\ PPUInstall(PPU_clock(PPUPack), "PPU.clock", <<>>)
    /\ start' = IF ppu._cycle = 0 THEN ppu ELSE start
    /\ clocks' = IF fault' # "none" THEN -1
                 ELSE IF ppu._cycle = 0 THEN 1
                 ELSE IF clocks > 0 THEN clocks + 1 ELSE -1
    /\ run' = IF fault' = "none" THEN run + 1 ELSE -1
    /\ UNCHANGED <<origin, ops>>

\* The register interface: any order of calls
RegsReset == ops < MaxRegOps /\ CallReset

RegsWrite == ops < MaxRegOps /\ \E w \in RegWrites : CallWrite(w[1], w[2])

RegsRead == ops < MaxRegOps /\ \E address \in RegReads : CallRead(address)

RegsClock == run < MaxRegClocks /\ CallClock

NextRegs == RegsReset \/ RegsWrite \/ RegsRead \/ RegsClock

SpecRegs == InitRegs /\ [][NextRegs]_vars

\* Scanlines: the registers are set up, then the PPU is clocked
LineReset == ops = 0 /\ run = 0 /\ CallReset

LineWrite ==
    /\ ops < MaxLineOps /\ run = 0
    /\ \E w \in LineWrites : CallWrite(w[1], w[2])

LineClock == run < MaxLineClocks /\ CallClock

NextLine == LineReset \/ LineWrite \/ LineClock

SpecLine == InitRender /\ [][NextLine]_vars

\* The address register: after reset(), the two writes to $2006, of any two
\* bytes
AddressReset == last = "new" /\ CallReset

AddressWrite ==
    /\ \/ last = "PPU.reset"
       \/ last = "PPU.write" /\ fault = "none" /\ ppu._write_latch = 1
    /\ \E data \in Byte : CallWrite(8198, data)

NextAddress == AddressReset \/ AddressWrite

SpecAddress == InitRegs /\ [][NextAddress]_vars

\* A frame: the PPU is reset and clocked
FrameReset == ops = 0 /\ run = 0 /\ CallReset

FrameClock == run < MaxFrameClocks /\ CallClock

NextFrame == FrameReset \/ FrameClock

SpecFrame == InitRender /\ [][NextFrame]_vars

\* A frame with the registers in use: after reset(), control, mask, the
\* scroll (first write) and the read buffer are given values, then the PPU
\* is clocked
IdleBuses == {MockBus(FALSE, 0, <<>>), MockBus(FALSE, 165, <<>>)}

InitIdle == NoCPU /\ NoCartridge /\ Alone /\ \E bus \in IdleBuses : PPUFresh(bus)

IdleReset == ops = 0 /\ run = 0 /\ CallReset

\* write(0x2000, 0x93), write(0x2001, 0x1E), write(0x2005, 0xF9)
IdleWrite ==
    /\ run = 0
    /\ \/ ops = 1 /\ CallWrite(8192, 147)
       \/ ops = 2 /\ CallWrite(8193, 30)
       \/ ops = 3 /\ CallWrite(8197, 249)

\* read(0x2007)
IdleRead == ops = 4 /\ run = 0 /\ CallRead(8199)

IdleClock == ops = 5 /\ run < MaxFrameClocks /\ CallClock

NextIdle == IdleReset \/ IdleWrite \/ IdleRead \/ IdleClock

SpecIdle == InitIdle /\ [][NextIdle]_vars

\* The data register: after reset(), v and the increment are set up with
\* writes to $2006 and $2000, then $2007 is read and written
MaxDataOps == 6
MaxSetupOps == 4

\* 0x3F, 0xFF, 0xE0 and 0x20 to $2006, and the increment of 32 to $2000
DataSetups ==
    {<<8198, 63>>, <<8198, 255>>, <<8198, 224>>, <<8198, 32>>, <<8192, 4>>}

DataBuses == {PPUBus_new, MockBus(FALSE, 0, <<>>)}

InitData == NoCPU /\ NoCartridge /\ Alone /\ \E bus \in DataBuses : PPUFresh(bus)

DataReset == last = "new" /\ CallReset

DataSetup ==
    /\ ops < MaxSetupOps
    /\ last = "PPU.reset" \/ (last = "PPU.write" /\ arg[1] # 8199)
    /\ \E w \in DataSetups : CallWrite(w[1], w[2])

DataWrite ==
    /\ ops < MaxDataOps
    /\ last # "new" /\ fault = "none"
    /\ CallWrite(8199, 165)

DataRead ==
    /\ ops < MaxDataOps
    /\ last # "new" /\ fault = "none"
    /\ CallRead(8199)

NextData == DataReset \/ DataSetup \/ DataWrite \/ DataRead

SpecData == InitData /\ [][NextData]_vars

----------------------------------------------------------------------------
(* The PPU bus on its own: the calls a host makes on it.                   *)

\* PPUBus.write calls in one run
MaxBusWrites == 2

\* The nametable range 0x2000 - 0x2FFF and the palette range 0x3F00 - 0x3FFF
NametableRange == 8192 .. 12287
PaletteRange == 16128 .. 16383

\* The addresses of the first call on a bus: the PPU's whole address space
\* 0x0000 - 0x3FFF, and -1, 0x4000, 0xFFFF, 0x10000
BusAddresses == (0 .. 16383) \cup {-1, 16384, 65535, 65536}

\* The addresses of the later calls: 0x2000, 0x27FF, 0x2800, 0x2FFF, 0x3F00,
\* 0x3F04, 0x3F10, 0x3F14, 0x3F30, 0x3FFF, and 0x0000, 0x3000, 0x4000
SomeBusAddresses ==
    {8192, 10239, 10240, 12287, 16128, 16132, 16144, 16148, 16176, 16383,
     0, 12288, 16384}

BusData == {0, 90, 165}

\* An address moved by d inside the nametable range, wrapping at its ends
Around(address, d) == 8192 + ((address - 8192 + d) % 4096)

\* What a host reads after PPUBus.write(address, v) to see where v landed:
\* after a nametable write the addresses of the range with the same low
\* byte, the neighbours of the address, and the address one range lower and
\* higher; after a palette write the whole palette range
Probes(address) ==
    IF address \in NametableRange
    THEN {b \in NametableRange : b % 256 = address % 256}
         \cup {Around(address, 1), Around(address, -1),
               address - 4096, address + 4096}
    ELSE IF address \in PaletteRange THEN PaletteRange
    ELSE {address}

\* A call on the bus itself; the PPU is constructed and never called
BusInstall(ok, bus, value, name, args) ==
    /\ ppu_bus' = bus
    /\ fault' = IF ok THEN "none" ELSE "InvalidAddress"
    /\ ret' = IF ok THEN value ELSE "None"
    /\ calls' = <<>>
    /\ last' = name
    /\ arg' = args
    /\ prev' = [last |-> last, arg |-> arg, before |-> before,
                calls |-> calls, ret |-> ret, fault |-> fault]
    /\ ops' = ops + 1
    /\ UNCHANGED <<ppu, before, start, clocks, origin, run>>
    /\ UNCHANGED <<cpuVars, cartVars, twin>>

\* ppu_bus.write(address, data)
CallBusWrite(address, data) ==
    LET r == PPUBus_write(ppu_bus, address, data) IN
    BusInstall(r.ok, r.bus, "None", "PPUBus.write", <<address, data>>)

\* ppu_bus.read(address)
CallBusRead(address) ==
    LET r == PPUBus_read(ppu_bus, address) IN
    BusInstall(r.ok, ppu_bus, r.data, "PPUBus.read", <<address>>)

\* The first write goes anywhere; a write to one of the later addresses may
\* be followed by more writes to them
BusWriteAddresses ==
    IF last = "new" THEN BusAddresses
    ELSE IF last = "PPUBus.write" /\ arg[1] \in SomeBusAddresses
            /\ ops < MaxBusWrites
    THEN SomeBusAddresses
    ELSE {}

\* A read follows construction or a write
BusReadAddresses ==
    IF last = "new" THEN BusAddresses
    ELSE IF last = "PPUBus.write"
    THEN IF prev.last = "new" THEN Probes(arg[1]) ELSE SomeBusAddresses
    ELSE {}

PPUBusWrite ==
    \E address \in BusWriteAddresses, data \in BusData :
        CallBusWrite(address, data)

PPUBusRead == \E address \in BusReadAddresses : CallBusRead(address)

NextBus == PPUBusWrite \/ PPUBusRead

InitBus == NoCPU /\ NoPPU /\ NoCartridge /\ Alone

SpecBus == InitBus /\ [][NextBus]_vars

----------------------------------------------------------------------------

(* The cartridge on its own: a file is loaded and read.                    *)

\* The 16 bytes of an iNES header
HeaderBytes(prg_banks, chr_banks, flags6, flags7) ==
    ines_header \o <<prg_banks, chr_banks, flags6, flags7>>
    \o <<0, 0, 0, 0, 0, 0, 0, 0>>

\* Headers: 0 to 3 PRG banks, 0 to 2 CHR banks; byte 6 with mirroring,
\* trainer and low mapper bits: 0x00, 0x01, 0x04, 0x05, 0x10, 0xF4; byte 7
\* with the high mapper bits: 0x00, 0x10, 0xF0
Headers ==
    {HeaderBytes(p, c, f6, f7) :
        p \in 0 .. 3, c \in 0 .. 2, f6 \in {0, 1, 4, 5, 16, 244},
        f7 \in {0, 16, 240}}

\* The length of the file a header describes
DeclaredSize(head) ==
    16 + (IF BitAnd(head[7], 4) # 0 THEN 512 ELSE 0)
    + 16384 * head[5] + 8192 * head[6]

\* Files with a whole header: of the length the header describes, one byte
\* longer, one byte shorter, and the header alone
WholeFiles ==
    UNION {{[head |-> h, size |-> n] :
                n \in {DeclaredSize(h), DeclaredSize(h) + 1,
                       DeclaredSize(h) - 1, 16} \ {15}} : h \in Headers}

\* Files that are not .nes files, and files that end inside the header
BrokenFiles ==
    {[head |-> <<>>, size |-> 0],
     [head |-> <<0, 0, 0, 0>>, size |-> 4],
     [head |-> <<78, 69, 83>>, size |-> 3],
     [head |-> ines_header, size |-> 4],
     [head |-> ines_header \o <<1, 1, 0>>, size |-> 7],
     [head |-> ines_header \o <<1, 1, 0, 0>>, size |-> 8],
     [head |-> <<78, 69, 83, 0, 1, 1, 0, 0, 0, 0, 0, 0, 0, 0, 0, 0>>,
      size |-> 24592]}

RomFiles == WholeFiles \cup BrokenFiles

\* Every address is read on the cartridges of files of the length their
\* header describes with one CHR bank and mapper 0; the ends of the banks
\* are read on the others
EveryAddress ==
    /\ rom_data.size = DeclaredSize(rom_data.head)
    /\ rom_data.head[6] = 1
    /\ rom_data.head[7] \in {0, 4}

\* cpu_read addresses: 0x8000 - 0xFFFF, or 0x8000, 0xBFFF, 0xC000, 0xFFFF
CpuAddresses ==
    IF EveryAddress THEN 32768 .. 65535 ELSE {32768, 49151, 49152, 65535}

\* ppu_read addresses: 0x0000 - 0x1FFF, or 0x0000, 0x1FFF, 0x2000, 0x3FFF
PpuAddresses ==
    IF EveryAddress THEN 0 .. 8191 ELSE {0, 8191, 8192, 16383}

\* A call on the ROM or the cartridge
CartInstall(name, args, exception, text, value) ==
    /\ last' = name
    /\ arg' = args
    /\ fault' = exception
    /\ message' = text
    /\ ret' = value
    /\ calls' = <<>>
    /\ UNCHANGED <<ppu, ppu_bus, before, prev, start, clocks, origin, run,
                   ops>>
    /\ UNCHANGED <<cpuVars, rom_data, twin>>

\* rom = Rom(rom_data)
NewRom ==
    /\ last = "new"
    /\ rom' = IF Rom(Bytes(rom_data)).fault = "none"
              THEN Rom(Bytes(rom_data)) ELSE rom
    /\ CartInstall("Rom", <<>>, Rom(Bytes(rom_data)).fault,
                   Rom(Bytes(rom_data)).message, "None")
    /\ UNCHANGED cartridge

\* cartridge = Cartridge.from_file(file_path), the file holding rom_data
FromFile ==
    /\ last = "new"
    /\ cartridge' = IF Cartridge_from_file(rom_data).fault = "none"
                    THEN Cartridge_from_file(rom_data).cartridge
                    ELSE cartridge
    /\ CartInstall("Cartridge.from_file", <<>>,
                   Cartridge_from_file(rom_data).fault,
                   Cartridge_from_file(rom_data).message, "None")
    /\ UNCHANGED rom

\* What a read of the ROM did: the byte, or IndexError
ReadInstall(name, address, r) ==
    /\ CartInstall(name, <<address>>,
                   IF r.ok THEN "none" ELSE "IndexError", <<>>,
                   IF r.ok THEN r.data ELSE "None")
    /\ UNCHANGED <<rom, cartridge>>

\* cartridge.cpu_read(address), of a cartridge just loaded
CartCpuRead ==
    /\ last = "Cartridge.from_file" /\ cartridge # None
    /\ \E address \in CpuAddresses :
           ReadInstall("Cartridge.cpu_read", address,
                       Cartridge_cpu_read(cartridge, address))

\* cartridge.ppu_read(address), of a cartridge just loaded
CartPpuRead ==
    /\ last = "Cartridge.from_file" /\ cartridge # None
    /\ \E address \in PpuAddresses :
           ReadInstall("Cartridge.ppu_read", address,
                       Cartridge_ppu_read(cartridge, address))

NextCart == NewRom \/ FromFile \/ CartCpuRead \/ CartPpuRead

InitCart ==
    /\ NoCPU /\ NoPPU
    /\ Alone
    /\ rom_data \in RomFiles
    /\ rom = None /\ cartridge = None
    /\ message = <<>>



SpecCart == InitCart /\ [][NextCart]_vars

----------------------------------------------------------------------------
(* Two PPUs and two CPUs: a host that constructs a second object of each   *)
(* class and calls either PPU, or the first CPU.                           *)

\* Register accesses and reset() calls on the two PPUs in one run, clock()
\* calls on the second PPU included
MaxTwoOps == 3
\* clock() calls in a row on the first PPU
MaxTwoClocks == 9

\* Writes to $2000, $2001 and $2006
TwoWrites == {<<8192, 3>>, <<8193, 30>>, <<8198, 33>>}

\* The programs of the first CPU: BRK, or ADC #0x10
TwoOpcodes == {0, 105}

\* The second PPU and the second CPU as constructed
Twins ==
    [ppu |-> PPU_new, ppu_was |-> PPU_new, called |-> FALSE,
     status |-> 0, status_was |-> 0]

\* Both PPUs are constructed on a Mock that returns 0x00, as in the tests;
\* the first CPU runs a program on its Mock, the second is never called
InitTwo ==
    /\ Fresh
    /\ entry = 0
    /\ busKind = "Mock" /\ ram = <<>> /\ fill = 255
    /\ \E opc \in TwoOpcodes : image = Program(entry, opc, <<16, 0>>)
    /\ PPUFresh(MockBus(FALSE, 0, <<>>))
    /\ NoCartridge
    /\ twin = Twins

TwinPack ==
    [self |-> twin.ppu, bus |-> ppu_bus, calls |-> <<>>, fault |-> "none",
     val |-> 0, ret |-> "None"]

\* A call on the second PPU, which left it and its bus as st
TwinInstall(st, name, args) ==
    /\ ppu' = ClassAttributes(ppu, st.self)
    /\ twin' = PPUSeen(st.self, TRUE)
    /\ ppu_bus' = st.bus
    /\ calls' = st.calls
    /\ fault' = st.fault
    /\ ret' = IF st.fault = "none" THEN st.ret ELSE "None"
    /\ last' = name
    /\ arg' = args
    /\ before' = ppu
    /\ prev' = [last |-> last, arg |-> arg, before |-> before,
                calls |-> calls, ret |-> ret, fault |-> fault]
    /\ Paused
    /\ UNCHANGED <<cpuVars, cartVars>>

\* The host works on the PPUs as long as it has not touched the CPU, and on
\* the CPU as long as it has not touched the PPUs
OnPPUs == defined = {} /\ resets = 0 /\ ops < MaxTwoOps

OnCPUs == ops = 0 /\ run = 0

TwoReset == OnPPUs /\ CallReset

TwoWrite == OnPPUs /\ \E w \in TwoWrites : CallWrite(w[1], w[2])

TwoRead == OnPPUs /\ CallRead(8194)

TwoClock == OnPPUs /\ run < MaxTwoClocks /\ CallClock

TwinReset == OnPPUs /\ TwinInstall(PPU_reset(TwinPack), "PPU.reset", <<>>)

TwinWrite ==
    /\ OnPPUs
    /\ \E w \in TwoWrites :
           TwinInstall(PPU_write(TwinPack, w[1], w[2]), "PPU.write", w)

TwinRead == OnPPUs /\ TwinInstall(PPU_read(TwinPack, 8194), "PPU.read", <<8194>>)

TwinClock == OnPPUs /\ TwinInstall(PPU_clock(TwinPack), "PPU.clock", <<>>)

TwoSetRegisters == OnCPUs /\ SetRegisters

TwoCpuReset == OnCPUs /\ Reset

TwoCpuClock == OnCPUs /\ Clock

NextTwo ==
    \/ TwoReset \/ TwoWrite \/ TwoRead \/ TwoClock
    \/ TwinReset \/ TwinWrite \/ TwinRead \/ TwinClock
    \/ TwoSetRegisters \/ TwoCpuReset \/ TwoCpuClock

SpecTwo == InitTwo /\ [][NextTwo]_vars

----------------------------------------------------------------------------

(* Properties.                                                             *)

\* The 16-bit word whose low byte was read first and whose high byte second
WordRead(lowAccess, highAccess) == lowAccess[3] + 256 * highAccess[3]

\* C1 (as claimed): after any reset() that returns, whatever the state
\* before it, a = x = y = 0, s = 0xFD, the interrupt-disable bit of status
\* is set, pc is the word read from 0xFFFC (low) then 0xFFFD (high), and
\* remaining_cycles is 7.
C1_ResetLeavesSevenCycles ==
    (last = "reset" /\ fault = "none") =>
        /\ a = 0 /\ x = 0 /\ y = 0 /\ s = 253
        /\ (status \div 4) % 2 = 1
        /\ Len(calls) = 2
        /\ calls[1][1] = "read" /\ calls[1][2] = 65532
        /\ calls[2][1] = "read" /\ calls[2][2] = 65533
        /\ pc = WordRead(calls[1], calls[2])
        /\ remaining_cycles = 7

\* The 256-byte page of an address
PageOf(address) == address \div 256

\* The instruction in flight: fetched by a clock() call that returned, with
\* every call since then a clock() call that returned
InFlight == last = "clock" /\ fault = "none" /\ ticks > 0

\* The flag a branch tests and the value that takes it
BranchFlag(name) ==
    CASE name \in {"BCC", "BCS"} -> 0
      [] name \in {"BNE", "BEQ"} -> 1
      [] name \in {"BVC", "BVS"} -> 6
      [] name \in {"BPL", "BMI"} -> 7
BranchValue(name) == IF name \in {"BCS", "BEQ", "BVS", "BMI"} THEN 1 ELSE 0
BranchNames == {"BCC", "BCS", "BNE", "BEQ", "BPL", "BMI", "BVC", "BVS"}

\* Whether the branch in flight was taken, from the status before its fetch
Taken ==
    (pre.status \div (2 ^ BranchFlag(OpName(opcode)))) % 2
        = BranchValue(OpName(opcode))

\* The cycles the instruction in flight owes beyond its base count
Penalty ==
    CASE OpName(opcode) \in BranchNames ->
            IF Taken
            THEN 1 + B2I(PageOf(pre.pc + 2 + operation_value)
                         # PageOf(pre.pc + 2))
            ELSE 0
      [] OpMode(opcode) = "abx" ->
            B2I(PageOf(effective_address)
                # PageOf(effective_address - pre.x))
      [] OpMode(opcode) \in {"aby", "izy"} ->
            B2I(PageOf(effective_address)
                # PageOf(effective_address - pre.y))
      [] OTHER -> 0

\* C2 (as claimed): for every opcode of the table with base cycle count n,
\* starting from remaining_cycles == 0 with that opcode at pc, after
\* exactly n calls of clock() one opcode has been fetched, on the first
\* call, and remaining_cycles is 0 again.
C2_BaseCyclesComplete ==
    (InFlight /\ ticks = OpCycles(opcode)) =>
        /\ fetches = pre.fetches + 1
        /\ remaining_cycles = 0

\* C2 (amended): k calls of clock() into an instruction with base count n
\* and penalty p, one opcode has been fetched and n + p - k cycles remain:
\* remaining_cycles is 0 again after exactly n + p calls, not before.
C2_CyclesWithPenalty ==
    InFlight =>
        /\ pre.remaining_cycles = 0
        /\ fetches = pre.fetches + 1
        /\ ticks <= OpCycles(opcode) + Penalty
        /\ remaining_cycles = OpCycles(opcode) + Penalty - ticks

\* C2: an instruction with a penalty has run to its last cycle
C2_PenaltyPaid ==
    /\ InFlight
    /\ Penalty > 0
    /\ OpMode(opcode) = "izy"
    /\ ticks = OpCycles(opcode) + Penalty
    /\ remaining_cycles = 0

\* The sign bit of a byte
SignBit(byte) == byte \div 128

\* The operand ADC adds: for SBC, the operand XOR 0xFF
Addend ==
    IF last = "SBC" THEN 255 - pre.operation_value ELSE pre.operation_value

\* a + op + c, from the values before the operation
Sum == pre.a + Addend + (pre.status % 2)

\* C3: for all a, op in 0..255 and carry-in c, ADC leaves
\* a' = (a + op + c) mod 256, C = 1 iff a + op + c > 255, V = 1 iff a and op
\* have the same sign bit and a' the other, N = bit 7 of a', Z = 1 iff
\* a' = 0, and the flags I, D, B and bit 5 as they were; SBC gives the
\* result of ADC applied to op XOR 0xFF.
C3_ArithmeticFlags ==
    last \in {"ADC", "SBC"} =>
        /\ fault = "none"
        /\ a = Sum % 256
        /\ status % 2 = B2I(Sum > 255)
        /\ (status \div 64) % 2
               = B2I(SignBit(pre.a) = SignBit(Addend)
                     /\ SignBit(a) # SignBit(pre.a))
        /\ status \div 128 = SignBit(a)
        /\ (status \div 2) % 2 = B2I(a = 0)
        /\ (status \div 4) % 16 = (pre.status \div 4) % 16

\* C3: 0x50 + 0x50 with carry clear overflows into the sign bit
C3_SignedOverflow ==
    /\ last = "ADC"
    /\ pre.a = 80 /\ pre.operation_value = 80 /\ pre.status = 0
    /\ a = 160 /\ status = 192

\* A byte read as a signed offset, -128 .. 127
Signed(byte) == IF byte >= 128 THEN byte - 256 ELSE byte

\* The pc just after the operand of the branch in flight, its destination,
\* and the ticks the claim gives it
AfterOperand == pre.pc + 2
Destination == AfterOperand + operation_value
BranchTicks ==
    IF ~Taken THEN 2
    ELSE IF PageOf(Destination) = PageOf(AfterOperand) THEN 3 ELSE 4

\* C4: a branch (BCC, BCS, BNE, BEQ, BPL, BMI, BVC, BVS) that is not taken
\* costs exactly 2 ticks and leaves pc just after the operand; a taken one
\* sets pc to that pc plus the signed offset and costs 3 ticks when the
\* destination is in the same 256-byte page as the pc after the operand,
\* 4 ticks when it is in another page.
C4_BranchCost ==
    (InFlight /\ OpName(opcode) \in BranchNames) =>
        /\ ticks = 1 =>
              /\ Len(calls) = 2
              /\ calls[2] = <<"read", pre.pc + 1, calls[2][3]>>
              /\ operation_value = Signed(calls[2][3])
        /\ pc = IF Taken THEN Destination ELSE AfterOperand
        /\ ticks <= BranchTicks
        /\ remaining_cycles = BranchTicks - ticks

\* C4: a taken branch into another page is on its fourth and last tick
C4_TakenAcrossPage ==
    /\ InFlight /\ OpName(opcode) \in BranchNames
    /\ Taken
    /\ PageOf(Destination) # PageOf(AfterOperand)
    /\ ticks = 4 /\ remaining_cycles = 0

\* The status byte with the I and B bits set
WithIB(reg) ==
    reg + (IF (reg \div 4) % 2 = 0 THEN 4 ELSE 0)
        + (IF (reg \div 16) % 2 = 0 THEN 16 ELSE 0)

\* C5: BRK (0x00) fetched at P with stack pointer s writes the high byte
\* of P+2 at 0x0100|s, the low byte of P+2 at 0x0100|(s-1) and the status
\* byte with I and B set at 0x0100|(s-2), then reads 0xFFFE and 0xFFFF, in
\* this order; afterwards s is 3 less, I and B are set in status, pc is the
\* word read (low byte first) and the instruction takes 7 ticks.
C5_BreakSequence ==
    (InFlight /\ opcode = 0) =>
        /\ ticks = 1 =>
              /\ Len(calls) = 6
              /\ calls[1] = <<"read", pre.pc, 0>>
              /\ calls[2] = <<"write", BitOr(256, pre.s),
                               (pre.pc + 2) \div 256>>
              /\ calls[3] = <<"write", BitOr(256, pre.s - 1),
                               (pre.pc + 2) % 256>>
              /\ calls[4] = <<"write", BitOr(256, pre.s - 2),
                               WithIB(pre.status)>>
              /\ calls[5][1] = "read" /\ calls[5][2] = 65534
              /\ calls[6][1] = "read" /\ calls[6][2] = 65535
              /\ pc = WordRead(calls[5], calls[6])
        /\ s = pre.s - 3
        /\ status = WithIB(pre.status)
        /\ ticks <= 7
        /\ remaining_cycles = 7 - ticks

\* C5: the BRK of the interrupt test, at 0x0000 with s = 0xFD and
\* status = 0x00, on its seventh tick
C5_BreakDone ==
    /\ InFlight /\ opcode = 0
    /\ pre.pc = 0 /\ pre.s = 253 /\ pre.status = 0
    /\ s = 250 /\ status = 20 /\ pc = 513
    /\ ticks = 7 /\ remaining_cycles = 0

\* Opcodes that push (PHA, PHP, JSR, BRK) and that pull (PLA, PLP)
PushOpcodes == {o \in Opcodes : OpName(o) \in {"PHA", "PHP", "JSR", "BRK"}}
PullOpcodes == {o \in Opcodes : OpName(o) \in {"PLA", "PLP"}}

\* The writes among the bus accesses of the last call, in order
IsWrite(access) == access[1] = "write"
Writes == SelectSeq(calls, IsWrite)

\* C6 (as claimed): every push writes its byte at 0x0100|s and then
\* decrements s; every pull first increments s and then reads the byte at
\* 0x0100|s, with the incremented s.
C6_PushThenPullOrder ==
    (InFlight /\ ticks = 1) =>
        /\ opcode \in PushOpcodes =>
              /\ Len(Writes) >= 1
              /\ \A k \in 1 .. Len(Writes) :
                     Writes[k][2] = BitOr(256, pre.s - (k - 1))
              /\ s = pre.s - Len(Writes)
        /\ opcode \in PullOpcodes =>
              /\ Len(calls) = 2
              /\ calls[2][1] = "read"
              /\ s = pre.s + 1
              /\ calls[2][2] = BitOr(256, s)

\* C6, the part that holds: the pushes
C6_PushOrder ==
    (InFlight /\ ticks = 1 /\ opcode \in PushOpcodes) =>
        /\ Len(Writes) >= 1
        /\ \A k \in 1 .. Len(Writes) :
               Writes[k][2] = BitOr(256, pre.s - (k - 1))
        /\ s = pre.s - Len(Writes)

\* The last call was a clock() that fetched the opcode o at pre.pc
Fetched(o) ==
    /\ last = "clock"
    /\ Len(calls) >= 1
    /\ calls[1] = <<"read", pre.pc, o>>
    /\ opcode = o

\* C7 (as claimed): JSR (0x20) fetched at P pushes the high byte and then
\* the low byte of P+2 and sets pc to its operand address; RTS (0x60) pulls
\* the low byte and then the high byte and sets pc to the pulled address
\* plus 1, with s back where it was before the JSR.
C7_SubroutineCallAndReturn ==
    /\ (Fetched(32) /\ fault = "none") =>
          /\ Len(Writes) = 2
          /\ Writes[1] = <<"write", BitOr(256, pre.s),
                            (pre.pc + 2) \div 256>>
          /\ Writes[2] = <<"write", BitOr(256, pre.s - 1),
                            (pre.pc + 2) % 256>>
          /\ pc = WordRead(calls[2], calls[3])
          /\ s = pre.s - 2
    /\ Fetched(96) =>
          /\ fault # "KeyError"
          /\ fault = "none" =>
                /\ Len(calls) = 3
                /\ calls[2][1] = "read" /\ calls[3][1] = "read"
                /\ pc = WordRead(calls[2], calls[3]) + 1
                /\ s = pre.s + 2

\* CMP, CPX and CPY by opcode:
\* 0xC1 0xC5 0xC9 0xCD 0xD1 0xD5 0xD9 0xDD, 0xE0 0xE4 0xEC, 0xC0 0xC4 0xCC
CompareOpcodes ==
    [a |-> {193, 197, 201, 205, 209, 213, 217, 221},
     x |-> {224, 228, 236},
     y |-> {192, 196, 204}]

\* What a comparison of the register value reg leaves in C, Z and N
Compared(reg) ==
    /\ a = pre.a /\ x = pre.x /\ y = pre.y
    /\ status % 2 = B2I(reg >= operation_value)
    /\ (status \div 2) % 2 = B2I(reg = operation_value)
    /\ status \div 128 = ((reg - operation_value) % 256) \div 128

\* C8 (as claimed): CMP, CPX and CPY are executable opcodes that compare
\* a, x or y with the operand and leave the register unchanged: C = 1 iff
\* reg >= op, Z = 1 iff reg = op, N = bit 7 of (reg - op) mod 256.
C8_CompareExecutable ==
    /\ \A o \in CompareOpcodes.a : Fetched(o) =>
            (fault # "KeyError" /\ (fault = "none" => Compared(pre.a)))
    /\ \A o \in CompareOpcodes.x : Fetched(o) =>
            (fault # "KeyError" /\ (fault = "none" => Compared(pre.x)))
    /\ \A o \in CompareOpcodes.y : Fetched(o) =>
            (fault # "KeyError" /\ (fault = "none" => Compared(pre.y)))

\* The reset scenario: the reset vector holds 0x8000, a NOP (0xEA) is at
\* 0x8000, and two clock() calls have followed a reset()
ResetThenTwoClocks ==
    /\ busKind = "Mock"
    /\ Mock_read(65532) = 0 /\ Mock_read(65533) = 128
    /\ Mock_read(32768) = 234
    /\ sinceReset = 2

C10_RamRoundTrip ==
    (/\ last = "read"
     /\ busWrite # <<>>
     /\ hostRead[1] \in 0 .. 8191
     /\ hostRead[1] = busWrite[1]) =>
        /\ hostRead[2]
        /\ hostRead[3] = busWrite[2]

\* C10: 0xA5 written at 0x0805 has been read back from 0x0805
C10_ReadBackMirror ==
    /\ last = "read"
    /\ busWrite = <<2053, 165>>
    /\ hostRead = <<2053, TRUE, 165>>

\* C11 (as claimed): RAM is folded with addr & 0x07FF: for a, b in
\* 0x0000-0x1FFF, CPUBus.write(a, v) changes what CPUBus.read(b) returns
\* if and only if a & 0x07FF = b & 0x07FF.  Stated for the first write to a
\* RAM of zeroes, of a byte v that is not zero.
C11_FoldedAt07FF ==
    (/\ last = "read"
     /\ writes = 1 /\ busWrite # <<>>
     /\ busWrite[2] # 0
     /\ hostRead[1] \in 0 .. 8191) =>
        /\ hostRead[2]
        /\ hostRead[3] = IF hostRead[1] % 2048 = busWrite[1] % 2048
                          THEN busWrite[2] ELSE 0

\* C12 (as claimed): CPUBus.read and CPUBus.write fail with the
\* invalid-address error if and only if the address is greater than
\* 0xFFFF; every address in 0x0000-0xFFFF is accepted.
C12_OnlyAbove16BitsRejected ==
    (/\ last \in {"read", "write"}
     /\ calls[1][2] >= 0) =>
        (fault = "InvalidAddress" <=> calls[1][2] > 65535)

----------------------------------------------------------------------------
(* The PPU's counters and scroll registers.                                *)

\* The place of a PPU in the frame: cycles since (scanline -1, cycle 0)
Position(p) == (p._scanline + 1) * (_MAX_CYCLE + 1) + p._cycle

\* The cycles of a frame: 341 x 262
FrameLength == (_MAX_CYCLE + 1) * (_MAX_SCANLINE + 2)

\* C13: scanline is always in -1 .. 260 and cycle in 0 .. 340; a clock() call
\* that returns moves the counters one place on in cycle-major order, the last
\* place (260, 340) being followed by (-1, 0); so a PPU clocked n times is n
\* places on, modulo 341 x 262, and is back where it was after exactly
\* 341 x 262 clocks and not before.
C13_CountersCycleMajor ==
    /\ ppu._scanline \in -1 .. 260
    /\ ppu._cycle \in 0 .. 340
    /\ (last = "PPU.clock" /\ fault = "none") =>
           /\ Position(ppu) = (Position(before) + 1) % FrameLength
           /\ ppu._cycle = IF before._cycle = 340 THEN 0 ELSE before._cycle + 1
           /\ ppu._scanline = IF before._cycle < 340 THEN before._scanline
                              ELSE IF before._scanline = 260 THEN -1
                              ELSE before._scanline + 1
    /\ run >= 0 => Position(ppu) = (Position(origin) + run) % FrameLength

\* C13, its case: a PPU reset at (-1, 0) and clocked 341 x 262 times
C13_FrameWrapped ==
    /\ last = "PPU.clock" /\ fault = "none"
    /\ origin._scanline = -1 /\ origin._cycle = 0
    /\ run = FrameLength
    /\ ppu._scanline = -1 /\ ppu._cycle = 0
    /\ before._scanline = 260 /\ before._cycle = 340

\* v.flags.f and t.flags.f of the PPU p
V(p, f) == Field(p._vram, _PPUADDRESS[f])
T(p, f) == Field(p._vram_temp, _PPUADDRESS[f])

\* The last call was a clock() that returned
Clocked == last = "PPU.clock" /\ fault = "none"

\* C14 (as claimed): right after the clock() call that processes cycle 257 of
\* a scanline in -1 .. 239, v.coarse_x == t.coarse_x and
\* v.nt_select_x == t.nt_select_x, whatever v held before.
C14_HorizontalReload ==
    (/\ Clocked
     /\ Rendering(before._scanline)
     /\ before._cycle = 257) =>
        /\ V(ppu, "coarse_x") = T(ppu, "coarse_x")
        /\ V(ppu, "nt_select_x") = T(ppu, "nt_select_x")

\* The clock() calls of one scanline, from its cycle 0, all returned: n of them
Line(n) == Clocked /\ clocks = n

TileEnds == {8 * k : k \in 1 .. 31}

\* C16: in the clock() calls for cycles 0 .. 256 of a scanline in -1 .. 239,
\* coarse_x is incremented at cycles 8, 16, ..., 248 and at no other cycle (31
\* wraps to 0 and toggles nt_select_x), and fine_y is advanced at cycle 256
\* and at no other cycle. So after the 257 calls coarse_x is 31 places on
\* modulo 32 (31 from 0 with nt_select_x unchanged, 0 from 1 with nt_select_x
\* toggled) and fine_y is one step on modulo 8.
C16_FirstCyclesOfScanline ==
    /\ (/\ Clocked
        /\ Rendering(before._scanline)
        /\ before._cycle \in 0 .. 256) =>
           /\ V(ppu, "coarse_x") =
                  IF before._cycle \in TileEnds
                  THEN (V(before, "coarse_x") + 1) % 32
                  ELSE V(before, "coarse_x")
           /\ V(ppu, "nt_select_x") =
                  IF before._cycle \in TileEnds /\ V(before, "coarse_x") = 31
                  THEN 1 - V(before, "nt_select_x")
                  ELSE V(before, "nt_select_x")
           /\ V(ppu, "fine_y") =
                  IF before._cycle = 256
                  THEN (V(before, "fine_y") + 1) % 8
                  ELSE V(before, "fine_y")
    /\ (/\ Line(257)
        /\ Rendering(start._scanline)) =>
           /\ V(ppu, "coarse_x") = (V(start, "coarse_x") + 31) % 32
           /\ V(ppu, "nt_select_x") =
                  IF V(start, "coarse_x") = 0
                  THEN V(start, "nt_select_x")
                  ELSE 1 - V(start, "nt_select_x")
           /\ V(ppu, "fine_y") = (V(start, "fine_y") + 1) % 8

\* C16, its case: cycles 0 .. 256 clocked from coarse_x = 1, with the wrap
C16_WrappedIntoNextNametable ==
    /\ Line(257)
    /\ Rendering(start._scanline)
    /\ V(start, "coarse_x") = 1
    /\ V(ppu, "coarse_x") = 0
    /\ V(ppu, "nt_select_x") = 1 - V(start, "nt_select_x")
    /\ V(ppu, "fine_y") = V(start, "fine_y") + 1

\* The PPU was reset at scanline -1, cycle 0 and has since been clocked only
FromReset ==
    /\ run >= 0
    /\ origin._scanline = -1 /\ origin._cycle = 0
    /\ origin._vram = 0 /\ origin._vram_temp = 0
    /\ ResetAttributes \subseteq origin.attrs

\* The scanlines of whose cycle 256 the clock() was among the first n of a
\* frame: scanlines -1 .. 239 have one, 241 in all
LinesDrawn(n) ==
    IF (n + 84) \div 341 < 241 THEN (n + 84) \div 341 ELSE 241

\* C17: a PPU clocked from the reset state has advanced the vertical scroll
\* once for every scanline drawn: fine_y counts to 7 and carries into
\* coarse_y, coarse_y counts to 29 and then flips nt_select_y. After exactly
\* 341 x 240 clocks 240 scanlines were drawn and v.fine_y == 0,
\* v.coarse_y == 0 and v.nt_select_y == 1.
C17_VerticalWrapAfterFrame ==
    /\ (FromReset /\ run <= FrameLength) =>
           V(ppu, "fine_y") + 8 * V(ppu, "coarse_y")
               + 240 * V(ppu, "nt_select_y") = LinesDrawn(run) % 480
    /\ (FromReset /\ run = 341 * 240) =>
           /\ V(ppu, "fine_y") = 0
           /\ V(ppu, "coarse_y") = 0
           /\ V(ppu, "nt_select_y") = 1

\* C17, its case: 341 x 240 clocks from the reset state
C17_FrameDrawn ==
    /\ FromReset /\ Clocked
    /\ run = 341 * 240
    /\ ppu._scanline = 239 /\ ppu._cycle = 0
    /\ V(ppu, "nt_select_y") = 1

----------------------------------------------------------------------------
(* The PPU's registers.                                                    *)

\* The last call on the PPU, in the shape of prev
Now ==
    [last |-> last, arg |-> arg, before |-> before, calls |-> calls,
     ret |-> ret, fault |-> fault]

\* The call c was a write to the register reg = 0 .. 7 that returned
Wrote(c, reg) ==
    /\ c.last = "PPU.write" /\ c.fault = "none"
    /\ c.arg[1] \in 8192 .. 16383 /\ c.arg[1] % 8 = reg

\* The call c was a read of the register reg that returned
ReadFrom(c, reg) ==
    /\ c.last = "PPU.read" /\ c.fault = "none"
    /\ c.arg[1] \in 8192 .. 16383 /\ c.arg[1] % 8 = reg

\* C18: a write of d1 to $2006 made with write_latch == 0 sets write_latch to
\* 1, puts d1 & 0x3F into the high byte of t and leaves the low byte of t and
\* all of v as they were; the write of d2 to $2006 that follows it leaves
\* t.reg == v.reg == ((d1 & 0x3F) << 8) | d2 and write_latch == 0.
C18_AddressDoubleWrite ==
    /\ (Wrote(Now, 6) /\ before._write_latch = 0) =>
           /\ ppu._write_latch = 1
           /\ ppu._vram_temp \div 256 = arg[2] % 64
           /\ ppu._vram_temp % 256 = before._vram_temp % 256
           /\ ppu._vram = before._vram
    /\ (Wrote(Now, 6) /\ Wrote(prev, 6) /\ prev.before._write_latch = 0) =>
           /\ ppu._write_latch = 0
           /\ ppu._vram_temp = (prev.arg[2] % 64) * 256 + arg[2]
           /\ ppu._vram = ppu._vram_temp

\* C18, its case: both writes made, the first of a byte with bits above 0x3F
C18_AddressWritten ==
    /\ Wrote(Now, 6) /\ Wrote(prev, 6)
    /\ prev.before._write_latch = 0
    /\ prev.arg[2] = 225 /\ arg[2] = 165
    /\ ppu._vram = 8613                                   \* 0x21A5
    /\ ppu._write_latch = 0

\* The increment of v that bit 2 of the control register of p selects
Increment(p) == IF (p._control \div 4) % 2 = 1 THEN 32 ELSE 1

\* The one bus read of the call c: <<"read", address, byte>>
BusRead(c) == c.calls[1]

\* C19: a read of $2007 made while v.reg < 0x3F00 reads the bus once, at
\* v.reg, returns what the read buffer held and keeps the byte the bus
\* returned in the buffer, and advances v by 1, or by 32 when bit 2 of the
\* control register is set. So the first read after reset() returns 0 and a
\* read that follows another read of $2007 returns the byte the bus returned
\* during that one: bus bytes b0, b1, b2 are returned as 0, b0, b1.
C19_ReadsAreBuffered ==
    /\ last = "PPU.reset" => ppu._data_read_buffer = 0
    /\ (ReadFrom(Now, 7) /\ before._vram < 16128) =>                \* 0x3F00
           /\ Len(calls) = 1
           /\ BusRead(Now)[1] = "read" /\ BusRead(Now)[2] = before._vram
           /\ ret = before._data_read_buffer
           /\ ppu._data_read_buffer = BusRead(Now)[3]
           /\ ppu._vram = before._vram + Increment(before)
           /\ prev.last = "PPU.reset" => ret = 0
           /\ ReadFrom(prev, 7) => ret = BusRead(prev)[3]

\* C19, its case: the third of three reads, of bus bytes 0xA5, 0x5A, 0x3C
C19_ThirdReadReturnsSecondByte ==
    /\ ReadFrom(Now, 7) /\ ReadFrom(prev, 7)
    /\ before._vram < 16128
    /\ prev.ret = 165
    /\ BusRead(prev)[3] = 90
    /\ ret = 90
    /\ BusRead(Now)[3] = 60

\* C20: a read of $2007 made while v.reg >= 0x3F00 reads the bus once, at
\* v.reg, and returns the byte the bus returned in that read, not what the
\* read buffer held; then v is advanced by 1, or by 32 when bit 2 of the
\* control register is set.
C20_PaletteReadsAreDirect ==
    (ReadFrom(Now, 7) /\ before._vram >= 16128) =>
        /\ Len(calls) = 1
        /\ BusRead(Now)[1] = "read" /\ BusRead(Now)[2] = before._vram
        /\ ret = BusRead(Now)[3]
        /\ ppu._vram = (before._vram + Increment(before)) % 65536

\* C20, its case: the second of two reads at 0x3F20 and 0x3F21, of bus bytes
\* 0xA5 and 0x5A
C20_SecondPaletteRead ==
    /\ ReadFrom(Now, 7) /\ ReadFrom(prev, 7)
    /\ prev.before._vram = 16160 /\ before._vram = 16161
    /\ prev.ret = 165
    /\ before._data_read_buffer = 165
    /\ ret = 90

\* The call just made was reset(), and it returned
ResetReturned == last = "PPU.reset" /\ fault = "none"

\* C21: after reset(), called in any state, control, mask, status, v, t,
\* fine_x, write_latch and data_read_buffer are 0, and so are the five fetch
\* latches (nametable_latch, palette_latch, pt_address, pt_latch_lo,
\* pt_latch_hi) and the four background shift registers.
C21_ResetZeroesEverything ==
    ResetReturned =>
        /\ ppu._control = 0 /\ ppu._mask = 0 /\ ppu._status = 0
        /\ ppu._vram = 0 /\ ppu._vram_temp = 0
        /\ ppu._fine_x = 0 /\ ppu._write_latch = 0
        /\ ppu._data_read_buffer = 0
        /\ ppu._nametable_latch = 0 /\ ppu._palette_latch = 0
        /\ ppu._pt_address = 0
        /\ ppu._pt_latch_lo = 0 /\ ppu._pt_latch_hi = 0
        /\ ppu._pt_shift_hi = 0 /\ ppu._pt_shift_lo = 0
        /\ ppu._at_shift_hi = 0 /\ ppu._at_shift_lo = 0

\* C22: after reset() the counters are (scanline, cycle) = (-1, 0), also
\* when the PPU was clocked before the call.
C22_ResetRewindsCounters ==
    ResetReturned => (ppu._scanline = -1 /\ ppu._cycle = 0)

\* The call c was PPUBus.write at an address of the range
BusWriteTo(c, range) == c.last = "PPUBus.write" /\ c.arg[1] \in range

\* The call c was PPUBus.read at an address of the range
BusReadOf(c, range) == c.last = "PPUBus.read" /\ c.arg[1] \in range

\* The call before the one before this one was made on a new bus
SecondCall == ops = 2

\* C23: for every address a in 0x2000 - 0x2FFF and every byte v,
\* PPUBus.write(a, v) returns, and the read that follows it returns v at a
\* and at every address b of the range with b mod 0x0800 == a mod 0x0800;
\* at the other addresses of the range the write is not seen (a read there
\* after the first write on a new bus returns 0).
C23_NametableWriteReadBack ==
    /\ BusWriteTo(Now, NametableRange) => fault = "none"
    /\ (BusReadOf(Now, NametableRange) /\ BusWriteTo(prev, NametableRange)) =>
           /\ fault = "none"
           /\ arg[1] % 2048 = prev.arg[1] % 2048 => ret = prev.arg[2]
           /\ (arg[1] % 2048 # prev.arg[1] % 2048 /\ SecondCall) => ret = 0

\* C23, its case: 0xA5 written at 0x2ABC is read at 0x22BC
C23_ReadAtTheOtherNametable ==
    /\ BusReadOf(Now, {8892}) /\ BusWriteTo(prev, {10940})
    /\ prev.arg[2] = 165
    /\ ret = 165

\* The mirror range 0x3000 - 0x3EFF
MirrorRange == 12288 .. 16127

\* C24: for every address a in 0x3000 - 0x3EFF, PPUBus.read(a) returns the
\* byte PPUBus.read(a - 0x1000) returns, and after PPUBus.write(a, v)
\* PPUBus.read(a - 0x1000) returns v.
C24_MirrorOfNametables ==
    /\ BusReadOf(Now, MirrorRange) =>
           /\ fault = "none"
           /\ ret = PPUBus_read(ppu_bus, arg[1] - 4096).data
    /\ BusWriteTo(Now, MirrorRange) =>
           /\ fault = "none"
           /\ PPUBus_read(ppu_bus, arg[1] - 4096).data = arg[2]

\* The palette cell of an address: entries 0x10, 0x14, 0x18, 0x1C of each
\* 32 bytes are the cells 0x00, 0x04, 0x08, 0x0C
PaletteCell(address) ==
    IF address % 32 \in {16, 20, 24, 28} THEN (address % 32) - 16
    ELSE address % 32

\* C25: for every address a in 0x3F00 - 0x3FFF and every byte v,
\* PPUBus.write(a, v) returns, and the read that follows it returns v at
\* every address b of the range that has the palette cell of a, where the
\* cell is (b mod 32) and the cells 0x10, 0x14, 0x18, 0x1C are the cells
\* 0x00, 0x04, 0x08, 0x0C; at the addresses of the other cells the write is
\* not seen (a read there after the first write on a new bus returns 0).
C25_PaletteFolding ==
    /\ BusWriteTo(Now, PaletteRange) => fault = "none"
    /\ (BusReadOf(Now, PaletteRange) /\ BusWriteTo(prev, PaletteRange)) =>
           /\ fault = "none"
           /\ PaletteCell(arg[1]) = PaletteCell(prev.arg[1]) =>
                  ret = prev.arg[2]
           /\ (PaletteCell(arg[1]) # PaletteCell(prev.arg[1]) /\ SecondCall) =>
                  ret = 0

\* C25, its case: 0xA5 written at 0x3FF4 (entry 0x14 of the last mirror) is
\* read at 0x3F04
C25_BackgroundEntryReadBack ==
    /\ BusReadOf(Now, {16132}) /\ BusWriteTo(prev, {16372})
    /\ prev.arg[2] = 165
    /\ ret = 165

\* C26: PPUBus.read and PPUBus.write raise the invalid-address exception
\* only at addresses above 0x3FFF; in particular an access in the
\* pattern-table range 0x0000 - 0x1FFF returns.
C26_OnlyAbove3FFFRejected ==
    (last \in {"PPUBus.read", "PPUBus.write"} /\ arg[1] >= 0) =>
        (fault = "InvalidAddress" <=> arg[1] > 16383)

\* The length of the trainer block the header of the file declares
TrainerLength == IF (rom_data.head[7] \div 4) % 2 = 1 THEN 512 ELSE 0

\* The PRG and the CHR byte of the file at index i
PrgByte(i) == FileByte(rom_data, 16 + TrainerLength + i)

ChrByte(i) ==
    FileByte(rom_data, 16 + TrainerLength + 16384 * rom_data.head[5] + i)

\* The file holds the banks its header declares
Complete == rom_data.size >= DeclaredSize(rom_data.head)

\* The address 0x4000 away in the other half of 0x8000 - 0xFFFF
OtherHalf(address) ==
    IF address >= 49152 THEN address - 16384 ELSE address + 16384

\* C27: a Mapper0.cpu_read(a) that returns, returns the PRG byte at
\* (a mod 0x8000) when the ROM has 2 PRG banks and at (a mod 0x4000)
\* otherwise; with 1 or 2 banks held by the file every read in
\* 0x8000 - 0xFFFF returns, and with one bank it returns what the read at
\* a XOR 0x4000 returns. A Mapper0.ppu_read(a) that returns, returns the
\* CHR byte at a, and every read in 0x0000 - 0x1FFF of a file holding a CHR
\* bank returns.
C27_Mapper0Reads ==
    /\ last = "Cartridge.cpu_read" =>
           /\ fault = "none" =>
                  ret = PrgByte(IF rom_data.head[5] = 2 THEN arg[1] % 32768
                                ELSE arg[1] % 16384)
           /\ (Complete /\ rom_data.head[5] \in {1, 2}) => fault = "none"
           /\ (Complete /\ rom_data.head[5] = 1) =>
                  /\ Cartridge_cpu_read(cartridge, OtherHalf(arg[1])).ok
                  /\ Cartridge_cpu_read(cartridge, OtherHalf(arg[1])).data
                         = ret
    /\ last = "Cartridge.ppu_read" =>
           /\ fault = "none" => ret = ChrByte(arg[1])
           /\ (Complete /\ rom_data.head[6] >= 1 /\ arg[1] < 8192) =>
                  fault = "none"

\* C27, its case: with one PRG bank and no trainer the read at 0xC005
\* returns PRG byte 5, the byte at offset 21 of the file
C27_MirroredRead ==
    /\ last = "Cartridge.cpu_read" /\ arg = <<49157>>
    /\ rom_data.head[5] = 1 /\ rom_data.head[7] = 0
    /\ Complete
    /\ ret = 21

\* The header of the file is read without an exception
HeaderRead ==
    /\ rom_data.size >= 8
    /\ \A i \in 1 .. 4 : rom_data.head[i] = ines_header[i]

\* The mapper id the header of the file declares: the high four bits of
\* byte 7 and the high four bits of byte 6
DeclaredMapper ==
    16 * (rom_data.head[8] \div 16) + (rom_data.head[7] \div 16)

\* C28: with a header that can be read, Cartridge.from_file fails when the
\* mapper id of the header is not a key of the registry, with the
\* RuntimeError that carries that id, and no Cartridge is made; when the id
\* is 0 it returns a Cartridge whose mapper is NROM.
C28_UnsupportedMapperFails ==
    (last = "Cartridge.from_file" /\ HeaderRead) =>
        /\ DeclaredMapper \notin DOMAIN SUPPORTED_MAPPERS =>
               /\ fault = "RuntimeError"
               /\ message = <<"This Mapper is not currently supported",
                              DeclaredMapper>>
               /\ cartridge = None
        /\ DeclaredMapper = 0 =>
               /\ fault = "none"
               /\ cartridge # None
               /\ cartridge._mapper.name = "NROM"

\* C28, its case: a file of mapper 255 was refused
C28_Mapper255Refused ==
    /\ last = "Cartridge.from_file" /\ HeaderRead
    /\ DeclaredMapper = 255
    /\ fault = "RuntimeError"
    /\ message[2] = 255
    /\ cartridge = None

\* The call just made was Rom(rom_data), and it returned
RomLoaded == last = "Rom" /\ fault = "none"

\* C29: Header.trainer of every header that is accepted is the length of
\* the trainer block: 512 when bit 2 of byte 6 is set and 0 otherwise.
C29_TrainerIsALength ==
    RomLoaded => rom.header.trainer = TrainerLength

\* C30: in every Rom that is made, the PRG slice starts at offset
\* 16 + trainer length of the file and is 16384 x prg_banks long, and the
\* CHR slice starts where the PRG slice ends and is 8192 x chr_banks long.
C30_SlicesHaveDeclaredSizes ==
    RomLoaded =>
        /\ rom._prg_rom.from = 16 + TrainerLength
        /\ rom._prg_rom.len = 16384 * rom_data.head[5]
        /\ rom._chr_rom.from = rom._prg_rom.from + rom._prg_rom.len
        /\ rom._chr_rom.len = 8192 * rom_data.head[6]

\* The last clock() returned and reloaded the background shift registers:
\* cycle 257, or fetch stage 0, of a scanline in -1 .. 239
Reloaded ==
    /\ Clocked
    /\ Rendering(before._scanline)
    /\ \/ before._cycle = 257
       \/ Fetching(before._cycle) /\ (before._cycle - 1) % 8 = 0

\* What a shift register held when the reload of the last clock() began: at
\* fetch stage 0 the registers have been shifted once in the same call
Unloaded(value) == IF before._cycle = 257 THEN value ELSE Shl(value, 1)

\* C31: a reload builds each of the four shift registers from its own previous
\* value: the high byte stays, the low byte is the pattern latch (pt) or 0xFF
\* or 0x00 by bit 0 (at_shift_lo) or bit 1 (at_shift_hi) of palette_latch.
C31_ReloadPerRegister ==
    Reloaded =>
        /\ ppu._pt_shift_lo =
               BitOr(BitAnd(Unloaded(before._pt_shift_lo), 65280),
                     before._pt_latch_lo)
        /\ ppu._pt_shift_hi =
               BitOr(BitAnd(Unloaded(before._pt_shift_hi), 65280),
                     before._pt_latch_hi)
        /\ ppu._at_shift_lo =
               BitOr(BitAnd(Unloaded(before._at_shift_lo), 65280),
                     IF before._palette_latch % 2 = 1 THEN 255 ELSE 0)
        /\ ppu._at_shift_hi =
               BitOr(BitAnd(Unloaded(before._at_shift_hi), 65280),
                     IF (before._palette_latch \div 2) % 2 = 1 THEN 255 ELSE 0)

\* The three registers that the reload does build from themselves
C31_ReloadOfTheOtherThree ==
    Reloaded =>
        /\ ppu._pt_shift_lo =
               BitOr(BitAnd(Unloaded(before._pt_shift_lo), 65280),
                     before._pt_latch_lo)
        /\ ppu._pt_shift_hi =
               BitOr(BitAnd(Unloaded(before._pt_shift_hi), 65280),
                     before._pt_latch_hi)
        /\ ppu._at_shift_hi =
               BitOr(BitAnd(Unloaded(before._at_shift_hi), 65280),
                     IF (before._palette_latch \div 2) % 2 = 1 THEN 255 ELSE 0)

\* The last clock() returned and ran fetch stage n = (cycle - 1) mod 8 of a
\* scanline in -1 .. 239
Stage(n) ==
    /\ Clocked
    /\ Rendering(before._scanline)
    /\ Fetching(before._cycle)
    /\ (before._cycle - 1) % 8 = n

\* The pattern address of the tile id in nametable_latch
PatternAddress(p) ==
    BitOr(BitOr(Shl(Field(p._control, _PPUCTRL.background_pt_address), 12),
                Shl(p._nametable_latch, 4)),
          Field(p._vram, _PPUADDRESS.fine_y))

\* C32: fetch stage 4 computes pt_address from the latched tile id and makes
\* exactly one bus read, at pt_address, into pt_latch_lo; stage 6 makes one
\* read, at pt_address + 8, into pt_latch_hi.
C32_PatternFetches ==
    /\ Stage(4) =>
           /\ ppu._pt_address = PatternAddress(before)
           /\ Len(calls) = 1
           /\ calls[1] = <<"read", ppu._pt_address, ppu._pt_latch_lo>>
    /\ Stage(6) =>
           /\ Len(calls) = 1
           /\ calls[1] = <<"read", before._pt_address + 8, ppu._pt_latch_hi>>

\* What the two stages do in the code: stage 4 reads the bus at the address
\* nametable_latch first and then at pt_address
C32_PatternFetchesOfTheCode ==
    /\ Stage(4) =>
           /\ Len(calls) = 2
           /\ calls[1][1] = "read" /\ calls[1][2] = before._nametable_latch
           /\ ppu._pt_address =
                  BitOr(BitOr(Shl(Field(before._control,
                                        _PPUCTRL.background_pt_address), 12),
                              Shl(calls[1][3], 4)),
                        Field(before._vram, _PPUADDRESS.fine_y))
           /\ calls[2] = <<"read", ppu._pt_address, ppu._pt_latch_lo>>
    /\ Stage(6) =>
           /\ Len(calls) = 1
           /\ calls[1] = <<"read", before._pt_address + 8, ppu._pt_latch_hi>>

\* The last call returned, and was one that the claim says leaves write_latch
\* alone: a clock(), or a read or write that is not at $2002, $2005 or $2006
LatchBystander ==
    \/ Clocked
    \/ \E reg \in {0, 1, 3, 4, 7} : Wrote(Now, reg) \/ ReadFrom(Now, reg)
    \/ Wrote(Now, 2)
    \/ \E reg \in {0, 1, 3, 4, 5, 6} : ReadFrom(Now, reg)
    \/ /\ last \in {"PPU.read", "PPU.write"} /\ fault = "none"
       /\ arg[1] \notin 8192 .. 16383

\* C33: write_latch is 0 or 1 and $2005 and $2006 share it: a write to either
\* toggles it, so that a write to $2006 after one write to $2005 takes the
\* second-write path (t's low byte is written and v becomes t); a read of
\* $2002 clears it, so that the write to $2005 or $2006 after it leaves 1;
\* no other register access and no clock() changes it.
C33_WriteLatchShared ==
    /\ ppu._write_latch \in {0, 1}
    /\ (Wrote(Now, 5) \/ Wrote(Now, 6)) =>
           ppu._write_latch = 1 - before._write_latch
    /\ (Wrote(Now, 6) /\ Wrote(prev, 5) /\ prev.before._write_latch = 0) =>
           /\ ppu._write_latch = 0
           /\ ppu._vram_temp % 256 = arg[2]
           /\ ppu._vram = ppu._vram_temp
    /\ ReadFrom(Now, 2) => ppu._write_latch = 0
    /\ ((Wrote(Now, 5) \/ Wrote(Now, 6)) /\ ReadFrom(prev, 2)) =>
           ppu._write_latch = 1
    /\ LatchBystander => ppu._write_latch = before._write_latch

\* C33, its case: a write to $2005 with the latch clear, then a write to
\* $2006, which took the second-write path
C33_ScrollThenAddress ==
    /\ Wrote(Now, 6) /\ Wrote(prev, 5)
    /\ prev.before._write_latch = 0
    /\ prev.arg[2] = 249 /\ arg[2] = 63
    /\ ppu._write_latch = 0
    /\ ppu._vram % 256 = 63
    /\ ppu._vram = ppu._vram_temp

\* C34: in every state reached from a reset() by clock() calls, pc is in
\* 0 .. 0xFFFF: fetch increments, taken branches, the JSR decrement and the
\* BRK increment wrap modulo 2^16.
C34_ProgramCounterIn16Bits ==
    sinceReset >= 0 => (0 <= pc /\ pc <= 65535)

\* C35: s is an 8-bit value: it is in 0 .. 0xFF in every state reached from a
\* reset(); an instruction that pushes leaves s - n mod 256 and one that pulls
\* leaves s + 1 mod 256 (a push at 0x00 leaves 0xFF, a pull at 0xFF leaves
\* 0x00), and every stack access is at an address in 0x0100 .. 0x01FF.
C35_StackPointerIn8Bits ==
    /\ sinceReset >= 0 => s \in 0 .. 255
    /\ (InFlight /\ ticks = 1 /\ opcode \in PushOpcodes) =>
           /\ s = (pre.s - Len(Writes)) % 256
           /\ \A k \in 1 .. Len(Writes) : Writes[k][2] \in 256 .. 511
    /\ (InFlight /\ ticks = 1 /\ opcode \in PullOpcodes) =>
           /\ s = (pre.s + 1) % 256
           /\ calls[2][2] \in 256 .. 511

\* The last call was a clock() that failed: the bus rejected an access, or
\* the opcode fetched is not in the operation table
ClockFailed == last = "clock" /\ fault \in {"InvalidAddress", "KeyError"}

\* C36: a clock() call that fails leaves pc, a, x, y, s, status and
\* remaining_cycles as they were before the call.
C36_FailedClockChangesNothing ==
    ClockFailed =>
        /\ pc = pre.pc /\ a = pre.a /\ x = pre.x /\ y = pre.y /\ s = pre.s
        /\ status = pre.status
        /\ remaining_cycles = pre.remaining_cycles

\* What a failed clock() does leave alone: the registers other than pc and s
C36_FailedClockKeepsRegisters ==
    ClockFailed =>
        /\ a = pre.a /\ x = pre.x /\ y = pre.y

\* The instruction in flight is the pull opcode, fetched right after the push
\* opcode at the start of the program; the bus is CPUBus, whose RAM keeps
\* what is pushed (the Mock of the tests stores nothing)
PushedThenPulled(pushOpcode, pullOpcode) ==
    /\ InFlight /\ ticks = 1
    /\ busKind = "CPUBus"
    /\ fetches = 2
    /\ opcode = pullOpcode /\ pre.pc = entry + 1
    /\ CPUBus_read(ram, entry).data = pushOpcode
    /\ pre.s + 1 \in 1 .. 255

\* The byte that the push before the pull in flight wrote, at 0x0100 | s
\* with its own s, which is one above the stack pointer the pull found
Pushed == CPUBus_read(ram, BitOr(256, pre.s + 1)).data

\* C37: the stack is last-in first-out: PHA with a == v at s in 0x01 .. 0xFF
\* and then PLA leave a == v and s as it was before the PHA; PHP and then
\* PLP leave the status byte that was pushed, and s as it was.
C37_LastInFirstOut ==
    /\ PushedThenPulled(72, 104) =>
           /\ Pushed = pre.a
           /\ a = pre.a
           /\ s = pre.s + 1
    /\ PushedThenPulled(8, 40) =>
           /\ status = Pushed
           /\ s = pre.s + 1

\* What the code does: the pull returns the byte one below the pushed one,
\* and s is back where it was
C37_PullsBelowThePush ==
    \A pushOpcode \in {72, 8}, pullOpcode \in {104, 40} :
        PushedThenPulled(pushOpcode, pullOpcode) =>
            /\ s = pre.s + 1
            /\ calls[2] = <<"read", BitOr(256, pre.s),
                            CPUBus_read(ram, BitOr(256, pre.s)).data>>
            /\ pullOpcode = 104 => a = calls[2][3]
            /\ pullOpcode = 40 => status = calls[2][3]

\* control, mask, status, v and t as the PPU object p has them
RegistersOf(p) == <<p._control, p._mask, p._status, p._vram, p._vram_temp>>

\* C38: two objects of a class share no register state: a write, read,
\* reset or clock on one PPU leaves control, mask, status, v and t of the
\* other PPU as they were, and a call on one CPU leaves the status register
\* of the other CPU as it was.
C38_InstancesShareNothing ==
    twin # None =>
        /\ (last \in {"PPU.reset", "PPU.write", "PPU.read", "PPU.clock"}
               /\ ~twin.called) =>
               RegistersOf(twin.ppu) = RegistersOf(twin.ppu_was)
        /\ (last \in {"PPU.reset", "PPU.write", "PPU.read", "PPU.clock"}
               /\ twin.called) =>
               RegistersOf(ppu) = RegistersOf(before)
        /\ last \in {"set", "reset", "clock"} =>
               twin.status = twin.status_was

\* What the two PPUs do keep apart: the attributes that reset() and the
\* register accesses create on the instance
C38_InstanceAttributesApart ==
    (twin # None /\ last \in {"PPU.reset", "PPU.write", "PPU.read", "PPU.clock"}) =>
        /\ ~twin.called =>
               /\ twin.ppu._write_latch = twin.ppu_was._write_latch
               /\ twin.ppu._fine_x = twin.ppu_was._fine_x
               /\ twin.ppu._cycle = twin.ppu_was._cycle
               /\ twin.ppu.attrs = twin.ppu_was.attrs
        /\ twin.called =>
               /\ ppu._write_latch = before._write_latch
               /\ ppu._fine_x = before._fine_x
               /\ ppu._cycle = before._cycle
               /\ ppu.attrs = before.attrs

\* The last call was a read or a write of $2007, whether it returned or not
DataAccess ==
    /\ last \in {"PPU.read", "PPU.write"}
    /\ arg[1] \in 8192 .. 16383 /\ arg[1] % 8 = 7

\* C39: after reset() and any accesses of $2006 and $2007, the address that
\* a read or write of $2007 passes to the bus is in 0x0000 .. 0x3FFF, and v
\* is still in that range after the increment of 1 or 32.
C39_DataAddressIn14Bits ==
    DataAccess =>
        /\ \A k \in 1 .. Len(calls) : calls[k][2] \in 0 .. 16383
        /\ fault = "none" => ppu._vram \in 0 .. 16383

\* What the code keeps: the address passed is v as it was before the call,
\* and v is a 16-bit value
C39_DataAddressIsV ==
    DataAccess =>
        /\ Len(calls) = 1
        /\ calls[1][2] = before._vram
        /\ ppu._vram \in 0 .. 65535
        /\ fault = "none" =>
               ppu._vram = (before._vram + Increment(before)) % 65536

\* The counters of p are at a position where clock() neither fetches nor
\* reloads: a scanline in 240 .. 260, or cycle 0 or 258 .. 320
Idle(p) ==
    \/ 240 <= p._scanline /\ p._scanline <= 260
    \/ p._cycle = 0
    \/ 258 <= p._cycle /\ p._cycle <= 320

\* C40: clock() never changes control, mask, status, t, fine_x, write_latch
\* or data_read_buffer; and a clock() called at a scanline in 240 .. 260, or
\* at cycle 0 or 258 .. 320, returns without a bus access and changes only
\* the scanline and cycle counters.
C40_ClockLeavesRegisters ==
    last = "PPU.clock" =>
        /\ ppu._control = before._control
        /\ ppu._mask = before._mask
        /\ ppu._status = before._status
        /\ ppu._vram_temp = before._vram_temp
        /\ ppu._fine_x = before._fine_x
        /\ ppu._write_latch = before._write_latch
        /\ ppu._data_read_buffer = before._data_read_buffer
        /\ Idle(before) =>
               /\ fault = "none"
               /\ calls = <<>>
               /\ ppu = [before EXCEPT !._scanline = ppu._scanline,
                                       !._cycle = ppu._cycle]

\* C40, its case: a clock() in the vertical blank, at cycle 100 of scanline
\* 245, with the registers holding what was written before the frame
C40_IdleClockInVerticalBlank ==
    /\ Clocked
    /\ before._scanline = 245 /\ before._cycle = 100
    /\ ppu._scanline = 245 /\ ppu._cycle = 101
    /\ ppu._control = 147 /\ ppu._mask = 30
    /\ ppu._fine_x = 1 /\ ppu._write_latch = 1
    /\ ppu._data_read_buffer = 165
    /\ ppu._vram_temp # 0
    /\ ppu._pt_shift_lo # 0

====
